---------------------------- MODULE Spec2Model ----------------------------
(***************************************************************************)
(* A model of pubmed-cli's retrieval-decision and synthesis core:          *)
(*   - qa.Engine.Answer          (adaptive yes/no question answering)      *)
(*   - synth.Engine.Synthesize   (search -> fetch -> score -> filter ->    *)
(*                                compose), its progress reporting and     *)
(*                                SynthesizePMID                           *)
(*   - ncbi.BaseClient.DoGet     (rate-limited GET with retries on 429)    *)
(* Strings are sequences of one-character strings.  Every external call    *)
(* (search, fetch, completion) is two steps: the engine issues it, and the *)
(* collaborator returns, with a value or with an error.  The caller's      *)
(* context can be cancelled at any moment of a run; a call that is in      *)
(* flight at that moment, or issued after it, is aborted by its backend    *)
(* (exec.CommandContext, http.NewRequestWithContext) and returns an error. *)
(* A reply that had arrived before the cancellation is the interleaving in *)
(* which the return step precedes the cancel step.                         *)
(***************************************************************************)
EXTENDS Integers, Sequences, FiniteSets, TLC

VARIABLES
    backend,    \* the completion backend in use: "claude" or "codex"
    ctx,        \* the caller's context: "active", "Canceled", "DeadlineExceeded"
    pc,         \* position of the running operation
    cfg,        \* the engine's Config
    question,   \* the question passed to the operation
    call,       \* the external call in flight
    calls,      \* every external call issued so far, in order
    returns,    \* what each returned call returned, in order
    result,     \* the operation's Result accumulator
    ret,        \* what the operation returned
    ids,        \* Synthesize: the ids the search returned
    articles,   \* Synthesize: the fetched articles
    idx,        \* scoreRelevance: loop index i (0-based, as in the source)
    scored,     \* scoreRelevance: the ScoredPaper list
    errCount,   \* scoreRelevance: errCount
    firstErr,   \* scoreRelevance: firstErr
    tokens,     \* scoreRelevance: totalTokens
    relevant,   \* Synthesize: the papers kept by the filter, sorted and cut
    events,     \* every ProgressUpdate reported, in order
    progress,   \* Engine.progress: the callback registered, "none" for nil
    progressCh, \* runSynthWithTUI: the updates buffered in progressCh
    uiModel,    \* synthProgressModel: the update the progress UI shows
    tui,        \* runSynthWithTUI: its goroutine, its channels and its UI loop
    clock,      \* the time, in thirds of a second
    limiter,    \* BaseClient.Limiter: the tokens it holds
    doGet,      \* each DoGet call in progress: position, attempt, responses
    window,     \* the requests sent in this third of a second and the 3 before
    args,       \* the arguments a function is applied to
    value       \* what the function returned, application after application

vars == <<backend, ctx, pc, cfg, question, call, calls, returns, result, ret,
          ids, articles, idx, scored, errCount, firstErr, tokens, relevant,
          events, progress, progressCh, uiModel, tui, clock, limiter, doGet,
          window, args, value>>

synthVars ==
    <<ids, articles, idx, scored, errCount, firstErr, tokens, relevant, events>>

tuiVars == <<progress, progressCh, uiModel, tui>>

ncbiVars == <<clock, limiter, doGet, window>>

engineVars == <<backend, ctx, pc, cfg, question, call, calls, returns, result, ret>>

pureVars == <<args, value>>

-----------------------------------------------------------------------------
(* Bounds of the model. *)

\* The most ids a search returns.
MaxIds == 2

\* The most articles a fetch returns.
MaxArticles == 3

-----------------------------------------------------------------------------
(* Strings. *)

Min(a, b) == IF a <= b THEN a ELSE b

Max(a, b) == IF a >= b THEN a ELSE b

Digits == {"0","1","2","3","4","5","6","7","8","9"}

UpperChars == <<"A","B","C","D","E","F","G","H","I","J","K","L","M",
                "N","O","P","Q","R","S","T","U","V","W","X","Y","Z">>

LowerChars == <<"a","b","c","d","e","f","g","h","i","j","k","l","m",
                "n","o","p","q","r","s","t","u","v","w","x","y","z">>

IsDigit(c) == c \in Digits

\* A regexp word character: [0-9A-Za-z_].
IsWord(c) ==
    \/ IsDigit(c)
    \/ c = "_"
    \/ \E k \in 1..26 : c = UpperChars[k] \/ c = LowerChars[k]

IsSpace(c) == c \in {" ", "\n", "\t", "\r"}

LowerChar(c) ==
    IF \E k \in 1..26 : c = UpperChars[k]
    THEN LowerChars[CHOOSE k \in 1..26 : c = UpperChars[k]]
    ELSE c

\* strings.ToLower
ToLower(s) == [k \in 1..Len(s) |-> LowerChar(s[k])]

\* Whether sub occurs in s starting at position k (1-based).
MatchAt(s, sub, k) ==
    /\ k >= 1
    /\ k + Len(sub) - 1 <= Len(s)
    /\ \A j \in 1..Len(sub) : s[k + j - 1] = sub[j]

\* strings.Contains
Contains(s, sub) == \E k \in 1..(Len(s) + 1) : MatchAt(s, sub, k)

\* strings.TrimSpace
TrimSpace(s) ==
    IF \A k \in 1..Len(s) : IsSpace(s[k])
    THEN <<>>
    ELSE LET first == CHOOSE k \in 1..Len(s) :
                          /\ ~IsSpace(s[k])
                          /\ \A j \in 1..(k - 1) : IsSpace(s[j])
             last  == CHOOSE k \in 1..Len(s) :
                          /\ ~IsSpace(s[k])
                          /\ \A j \in (k + 1)..Len(s) : IsSpace(s[j])
         IN  SubSeq(s, first, last)

\* The regexp assertion \b between positions k-1 and k of s.
WordBoundary(s, k) ==
    LET before == k >= 2 /\ k - 1 <= Len(s) /\ IsWord(s[k - 1])
        after  == k >= 1 /\ k <= Len(s) /\ IsWord(s[k])
    IN  before # after

\* The decimal value of a string of digits.
RECURSIVE Atoi(_)
Atoi(s) ==
    IF Len(s) = 0 THEN 0
    ELSE LET d == CHOOSE n \in 0..9 :
                      s[Len(s)] = <<"0","1","2","3","4","5","6","7","8","9">>[n + 1]
         IN  10 * Atoi(SubSeq(s, 1, Len(s) - 1)) + d

-----------------------------------------------------------------------------
(* Errors.  An error value keeps what made it (kind: "call" for an error   *)
(* of an external call, "config", "input", "business" for the engine's own *)
(* errors), the call that produced it (src, its index in calls, 0 if       *)
(* none), the prefix the engine put in front of it (stage), whether        *)
(* errors.Is finds the context's error in its chain (wrapsCtx), and        *)
(* whether the collaborator failed because the context was done            *)
(* (onCancel).                                                             *)

NoErr ==
    [kind |-> "", src |-> 0, stage |-> "", wrapsCtx |-> FALSE, onCancel |-> FALSE]

\* errors.New / fmt.Errorf without %w.
NewErr(kind, stage) == [NoErr EXCEPT !.kind = kind, !.stage = stage]

\* fmt.Errorf("<stage>: %w", err)
Wrap(stage, err) == [err EXCEPT !.stage = stage]

\* ClaudeClient.handleError: a done context gives a fresh error without %w.
ClaudeHandleError(ctxState) ==
    [wrapsCtx |-> FALSE, onCancel |-> ctxState # "active"]

\* CodexClient.Complete: a killed process is an *exec.ExitError, reported
\* without %w; a context already done makes Start fail with ctx.Err(), which
\* is wrapped with %w.
CodexError(ctxState, preCancelled) ==
    [wrapsCtx |-> ctxState # "active" /\ preCancelled,
     onCancel |-> ctxState # "active"]

\* BaseClient.DoGet: every error of the limiter and of the HTTP client is
\* wrapped with %w, and so are Search's and Fetch's.
DoGetError(ctxState) ==
    [wrapsCtx |-> ctxState # "active", onCancel |-> ctxState # "active"]

\* The error a collaborator returns for call c, the n-th call of the run.
CallError(c, n) ==
    LET e == IF c.kind \in {"search", "fetch"} THEN DoGetError(ctx)
             ELSE IF backend = "claude" THEN ClaudeHandleError(ctx)
             ELSE CodexError(ctx, c.preCancelled)
    IN  [kind |-> "call", src |-> n, stage |-> "",
         wrapsCtx |-> e.wrapsCtx, onCancel |-> e.onCancel]

\* What a call in flight can return: an error, or, while the context is
\* live, one of vals.  cancelled tells that the context was done.
Outcomes(vals) ==
    {[ok |-> FALSE, val |-> <<>>, cancelled |-> ctx # "active"]} \cup
    (IF ctx = "active"
     THEN {[ok |-> TRUE, val |-> v, cancelled |-> FALSE] : v \in vals}
     ELSE {})

NoCall == [kind |-> "none", purpose |-> "", preCancelled |-> FALSE]

NewCall(kind, purpose) ==
    [kind |-> kind, purpose |-> purpose, preCancelled |-> ctx # "active"]

Backends == {"claude", "codex"}

\* The ids a search can return and the articles a fetch can return.
Id(k) == <<"p", <<"0","1","2","3","4","5","6","7","8","9">>[k + 1]>>

IdLists == {[k \in 1..n |-> Id(k)] : n \in 0..MaxIds}

-----------------------------------------------------------------------------
(* qa: the adaptive answer engine. *)

StrategyParametric == "parametric"

StrategyRetrieval == "retrieval"

\* The questions put to Answer: one without any cue, one with a year of
\* 2024 or later, one with a recency keyword, one where "2025" is inside a
\* longer word, one with the year 2023.
Questions ==
    { <<"D","o","e","s"," ","X"," ","h","e","l","p","?">>,
      <<"I","n"," ","2","0","2","5"," ","i","s"," ","X"," ","o","k","?">>,
      <<"T","h","e"," ","L","a","t","e","s","t"," ","X","?">>,
      <<"i","d"," ","1","2","0","2","5","x">>,
      <<"i","n"," ","2","0","2","3","?">> }

\* Replies of the completion service to the confidence prompt.
ConfidenceReplies ==
    { <<"c","o","n","f","i","d","e","n","c","e",":"," ","9","\n",
        "a","n","s","w","e","r",":"," ","y","e","s">>,
      <<"C","O","N","F","I","D","E","N","C","E",":"," ","3","\n",
        "A","N","S","W","E","R",":"," ","n","o">>,
      <<"c","o","n","f","i","d","e","n","c","e",":"," ","1","2","\n","n","o">>,
      <<"c","o","n","f","i","d","e","n","c","e",":"," ","7">>,
      <<"Y","e","s",".">> }

\* Replies of the completion service to a yes/no prompt.
AnswerReplies == { <<"Y","e","s",".">>, <<"n","o">>, <<"u","n","s","u","r","e">> }

\* The values of Config the engine is built with.
QAConfigs ==
    [ConfidenceThreshold : {5, 7, 10},
     ForceRetrieval : BOOLEAN,
     ForceParametric : BOOLEAN]

\* yearPattern: \b(202[4-9]|203\d)\b
YearMatchAt(q, k) ==
    /\ k + 3 <= Len(q)
    /\ q[k] = "2" /\ q[k + 1] = "0"
    /\ \/ q[k + 2] = "2" /\ q[k + 3] \in {"4","5","6","7","8","9"}
       \/ q[k + 2] = "3" /\ IsDigit(q[k + 3])
    /\ WordBoundary(q, k)
    /\ WordBoundary(q, k + 4)

recencyTerms ==
    { <<"r","e","c","e","n","t">>,
      <<"l","a","t","e","s","t">>,
      <<"n","e","w"," ","s","t","u","d","y">>,
      <<"n","e","w"," ","r","e","s","e","a","r","c","h">>,
      <<"n","e","w","l","y"," ","p","u","b","l","i","s","h","e","d">>,
      <<"t","h","i","s"," ","y","e","a","r">>,
      <<"l","a","s","t"," ","m","o","n","t","h">>,
      <<"j","u","s","t"," ","p","u","b","l","i","s","h","e","d">> }

DetectNovelty(q) ==
    \/ \E k \in 1..Len(q) : YearMatchAt(q, k)
    \/ \E term \in recencyTerms : Contains(ToLower(q), term)

\* strings.Split(s, "\n")
RECURSIVE SplitLines(_)
SplitLines(s) ==
    IF \A k \in 1..Len(s) : s[k] # "\n"
    THEN <<s>>
    ELSE LET k == CHOOSE j \in 1..Len(s) :
                      s[j] = "\n" /\ \A h \in 1..(j - 1) : s[h] # "\n"
         IN  <<SubSeq(s, 1, k - 1)>> \o SplitLines(SubSeq(s, k + 1, Len(s)))

\* parts[len(parts)-1] of strings.Split(line, ":")
AfterLastColon(line) ==
    IF \A k \in 1..Len(line) : line[k] # ":"
    THEN line
    ELSE LET k == CHOOSE j \in 1..Len(line) :
                      line[j] = ":" /\ \A h \in (j + 1)..Len(line) : line[h] # ":"
         IN  SubSeq(line, k + 1, Len(line))

\* regexp \d+ FindString: the leftmost, longest run of digits ("" if none).
FirstDigitRun(s) ==
    IF \A k \in 1..Len(s) : ~IsDigit(s[k])
    THEN <<>>
    ELSE LET a == CHOOSE j \in 1..Len(s) :
                      IsDigit(s[j]) /\ \A h \in 1..(j - 1) : ~IsDigit(s[h])
             b == CHOOSE j \in a..Len(s) :
                      /\ \A h \in a..j : IsDigit(s[h])
                      /\ (j = Len(s) \/ ~IsDigit(s[j + 1]))
         IN  SubSeq(s, a, b)

YesNo(resp) == IF Contains(ToLower(resp), <<"y","e","s">>) THEN "yes" ELSE "no"

\* getConfidence's parse of the reply: the confidence.
ParseConfidence(resp) ==
    LET lines == SplitLines(ToLower(resp))
        isConf(l) == Contains(l, <<"c","o","n","f","i","d","e","n","c","e">>)
                     /\ Contains(l, <<":">>)
    IN  IF \A k \in 1..Len(lines) : ~isConf(lines[k])
        THEN 5
        ELSE LET k == CHOOSE j \in 1..Len(lines) :
                          isConf(lines[j]) /\ \A h \in 1..(j - 1) : ~isConf(lines[h])
                 match == FirstDigitRun(AfterLastColon(lines[k]))
             IN  IF match = <<>> THEN 5
                 ELSE IF Atoi(match) > 10 THEN 10
                 ELSE Atoi(match)

\* A variant of RetrievalForced that lets ForceParametric win.
RetrievalForced_ParametricFirst(c, q) ==
    (c.ForceRetrieval \/ DetectNovelty(q)) /\ ~c.ForceParametric

\* Answer, step 2: retrieval is decided without a confidence check.
RetrievalForced(c, q) == c.ForceRetrieval \/ DetectNovelty(q)

\* A variant of ConfidenceAccepted with a strict comparison.
ConfidenceAccepted_Strict(confidence, c) == confidence > c.ConfidenceThreshold

\* Answer: the confidence check accepts the parametric answer.
ConfidenceAccepted(confidence, c) == confidence >= c.ConfidenceThreshold

\* A variant of AfterSearch without the zero-hit check.
AfterSearch_NoZeroCheck(ok, found) == IF ~ok THEN "fail" ELSE "fetch"

\* answerWithRetrieval after the search returned: "fail", "fallback"
\* (answerParametric) or "fetch".
AfterSearch(ok, found) ==
    IF ~ok THEN "fail"
    ELSE IF Len(found) = 0 THEN "fallback"
    ELSE "fetch"

\* A variant of AfterFetch that answers without evidence when the fetch failed.
AfterFetch_Swallow(ok) == "answer"

\* answerWithRetrieval after the fetch returned: "fail" or "answer".
AfterFetch(ok) == IF ~ok THEN "fail" ELSE "answer"

\* The stage prefix of a failed completion: answerParametric returns the
\* error as it is, answerWithRetrieval wraps it as "answer".
CompletionStage(purpose) ==
    IF purpose = "confidence" THEN "confidence check"
    ELSE IF purpose = "evidence" THEN "answer"
    ELSE ""

EmptyResult ==
    [Question |-> <<>>, Answer |-> "", Confidence |-> 0, Strategy |-> "",
     NovelDetected |-> FALSE, SourcePMIDs |-> <<>>, MinifiedContext |-> <<>>]

NoRet == [kind |-> "none", res |-> EmptyResult, err |-> NoErr]

RetOk(r) == [kind |-> "ok", res |-> r, err |-> NoErr]

RetErr(e) == [kind |-> "err", res |-> EmptyResult, err |-> e]

\* The concurrent callers of DoGet on one BaseClient.
MaxCallers == 2

Callers == 1..MaxCallers

\* A caller that has not called DoGet.
IdleCaller == [pc |-> "idle", attempt |-> 0, resps |-> <<>>, sent |-> 0, ret |-> "none"]

\* NewBaseClient without an API key: a limiter of RateWithoutKey tokens per
\* second and burst 1, which starts full.  No request has been sent.
NewBaseClient ==
    /\ clock = 0
    /\ limiter = 1
    /\ doGet = [c \in Callers |-> IdleCaller]
    /\ window = <<0, 0, 0, 0>>

\* The ProgressUpdate of a progress UI that has received none.
NoUpdate == [Phase |-> "", Current |-> 0, Total |-> 0]

\* No function is applied on its own.
NoApplication ==
    /\ args = <<>>
    /\ value = <<>>

\* runSynthWithTUI is not running: no goroutine, no UI loop, progressCh open
\* and out empty, no update accepted by progressCh or received from it.
NoTUI ==
    [goroutine |-> "none", ui |-> "none", main |-> "none",
     closed |-> FALSE, closes |-> 0, sentOnClosed |-> FALSE,
     out |-> <<>>, accepted |-> 0, received |-> 0, doneAfter |-> 0,
     retval |-> [kind |-> "none"]]

\* No progress callback is registered (NewEngine leaves progress nil).
NoListener ==
    /\ progress = "none"
    /\ progressCh = <<>>
    /\ uiModel = NoUpdate
    /\ tui = NoTUI

InitShared ==
    /\ backend \in Backends
    /\ ctx = "active"
    /\ pc = "start"
    /\ call = NoCall
    /\ calls = <<>>
    /\ returns = <<>>
    /\ ret = NoRet
    /\ ids = <<>>
    /\ articles = <<>>
    /\ idx = 0
    /\ scored = <<>>
    /\ errCount = 0
    /\ firstErr = NoErr
    /\ tokens = [Input |-> 0, Output |-> 0]
    /\ relevant = <<>>
    /\ events = <<>>
    /\ NewBaseClient

InitQA ==
    /\ InitShared
    /\ cfg \in QAConfigs
    /\ question \in Questions
    /\ result = EmptyResult
    /\ NoListener
    /\ NoApplication

\* An engine that sends every external call twice.
Issue_Repeated(kind, purpose, at) ==
    /\ call' = NewCall(kind, purpose)
    /\ calls' = calls \o <<[kind |-> kind, purpose |-> purpose],
                           [kind |-> kind, purpose |-> purpose]>>
    /\ pc' = at

\* The engine issues an external call.
Issue(kind, purpose, at) ==
    /\ call' = NewCall(kind, purpose)
    /\ calls' = Append(calls, [kind |-> kind, purpose |-> purpose])
    /\ pc' = at

\* The operation returns.
Return(r) ==
    /\ ret' = r
    /\ call' = NoCall
    /\ pc' = "done"
    /\ UNCHANGED calls

\* The caller cancels the context, or its deadline passes.  The call in
\* flight is either running by then or has not started its process or
\* request yet (preCancelled).
Cancel ==
    /\ pc # "done"
    /\ ctx = "active"
    /\ ctx' \in {"Canceled", "DeadlineExceeded"}
    /\ \E early \in BOOLEAN :
          call' = IF call = NoCall THEN NoCall
                  ELSE [call EXCEPT !.preCancelled = early]
    /\ UNCHANGED <<backend, pc, cfg, question, calls, returns, result, ret>>
    /\ UNCHANGED synthVars
    /\ UNCHANGED tuiVars
    /\ UNCHANGED ncbiVars
    /\ UNCHANGED pureVars

\* Answer up to its first external call.
Answer ==
    /\ pc = "start"
    /\ LET r == [EmptyResult EXCEPT !.Question = question,
                                    !.NovelDetected = DetectNovelty(question)]
       IN  IF RetrievalForced(cfg, question)
           THEN /\ result' = [r EXCEPT !.Strategy = StrategyRetrieval]
                /\ Issue("search", "", "search")
           ELSE IF cfg.ForceParametric
           THEN /\ result' = [r EXCEPT !.Strategy = StrategyParametric]
                /\ Issue("complete", "bare", "parametric")
           ELSE /\ result' = r
                /\ Issue("complete", "confidence", "confidence")
    /\ UNCHANGED <<backend, ctx, cfg, question, returns, ret>>
    /\ UNCHANGED synthVars
    /\ UNCHANGED tuiVars
    /\ UNCHANGED ncbiVars
    /\ UNCHANGED pureVars

\* getConfidence returns to Answer.
getConfidence ==
    /\ pc = "confidence"
    /\ \E out \in Outcomes(ConfidenceReplies) :
        /\ returns' = Append(returns, out)
        /\ IF ~out.ok
          THEN /\ Return(RetErr(Wrap(CompletionStage("confidence"),
                                     CallError(call, Len(calls)))))
               /\ UNCHANGED result
          ELSE LET confidence == ParseConfidence(out.val)
                   r == [result EXCEPT !.Confidence = confidence]
               IN  IF ConfidenceAccepted(confidence, cfg)
                   THEN LET final == [r EXCEPT !.Strategy = StrategyParametric,
                                               !.Answer = YesNo(out.val)]
                        IN  /\ result' = final
                            /\ Return(RetOk(final))
                   ELSE /\ result' = [r EXCEPT !.Strategy = StrategyRetrieval]
                        /\ Issue("search", "", "search")
                        /\ UNCHANGED ret
    /\ UNCHANGED <<backend, ctx, cfg, question>>
    /\ UNCHANGED synthVars
    /\ UNCHANGED tuiVars
    /\ UNCHANGED ncbiVars
    /\ UNCHANGED pureVars

\* answerParametric: the bare yes/no completion returns.
answerParametric ==
    /\ pc = "parametric"
    /\ \E out \in Outcomes(AnswerReplies) :
        /\ returns' = Append(returns, out)
        /\ IF ~out.ok
          THEN /\ Return(RetErr(Wrap(CompletionStage("bare"),
                                     CallError(call, Len(calls)))))
               /\ UNCHANGED result
          ELSE LET final == [result EXCEPT !.Answer = YesNo(out.val)]
               IN  /\ result' = final
                   /\ Return(RetOk(final))
    /\ UNCHANGED <<backend, ctx, cfg, question>>
    /\ UNCHANGED synthVars
    /\ UNCHANGED tuiVars
    /\ UNCHANGED ncbiVars
    /\ UNCHANGED pureVars

\* answerWithRetrieval: the search returns.
answerWithRetrieval_search ==
    /\ pc = "search"
    /\ \E out \in Outcomes(IdLists) :
        /\ returns' = Append(returns, out)
        /\ LET next == AfterSearch(out.ok, out.val)
          IN  IF next = "fail"
              THEN /\ Return(RetErr(Wrap("search", CallError(call, Len(calls)))))
                   /\ UNCHANGED result
              ELSE IF next = "fallback"
              THEN /\ Issue("complete", "bare", "parametric")
                   /\ UNCHANGED <<result, ret>>
              ELSE /\ result' = [result EXCEPT !.SourcePMIDs = out.val]
                   /\ Issue("fetch", "", "fetch")
                   /\ UNCHANGED ret
    /\ UNCHANGED <<backend, ctx, cfg, question>>
    /\ UNCHANGED synthVars
    /\ UNCHANGED tuiVars
    /\ UNCHANGED ncbiVars
    /\ UNCHANGED pureVars

\* answerWithRetrieval: the fetch returns; the context is one part per
\* article.
answerWithRetrieval_fetch ==
    /\ pc = "fetch"
    /\ \E out \in Outcomes({[k \in 1..n |-> Id(k)] : n \in 0..MaxArticles}) :
        /\ returns' = Append(returns, out)
        /\ IF AfterFetch(out.ok) = "fail"
          THEN /\ Return(RetErr(Wrap("fetch", CallError(call, Len(calls)))))
               /\ UNCHANGED result
          ELSE /\ result' = [result EXCEPT !.MinifiedContext = out.val]
               /\ Issue("complete", "evidence", "answer")
               /\ UNCHANGED ret
    /\ UNCHANGED <<backend, ctx, cfg, question>>
    /\ UNCHANGED synthVars
    /\ UNCHANGED tuiVars
    /\ UNCHANGED ncbiVars
    /\ UNCHANGED pureVars

\* answerWithRetrieval: the completion with the evidence returns.
answerWithRetrieval_answer ==
    /\ pc = "answer"
    /\ \E out \in Outcomes(AnswerReplies) :
        /\ returns' = Append(returns, out)
        /\ IF ~out.ok
          THEN /\ Return(RetErr(Wrap(CompletionStage("evidence"),
                                     CallError(call, Len(calls)))))
               /\ UNCHANGED result
          ELSE LET final == [result EXCEPT !.Answer = YesNo(out.val)]
               IN  /\ result' = final
                   /\ Return(RetOk(final))
    /\ UNCHANGED <<backend, ctx, cfg, question>>
    /\ UNCHANGED synthVars
    /\ UNCHANGED tuiVars
    /\ UNCHANGED ncbiVars
    /\ UNCHANGED pureVars

NextQA ==
    \/ Answer
    \/ getConfidence
    \/ answerParametric
    \/ answerWithRetrieval_search
    \/ answerWithRetrieval_fetch
    \/ answerWithRetrieval_answer
    \/ Cancel

SpecQA == InitQA /\ [][NextQA]_vars


-----------------------------------------------------------------------------
(* synth: the synthesis engine. *)

\* The values of Config the engine is built with, valid and invalid.
SynthConfigs ==
    [PapersToUse : {0, 1, 2},
     PapersToSearch : {0, 3},
     TargetWords : {0, 250},
     RelevanceThreshold : {0, 5, 7, 11}]

\* The questions put to Synthesize: empty, blank, and a real one.
SynthQuestions == { <<>>, <<" ", "\t">>, <<" ", "q", "?", " ">> }

\* Replies of the completion service to the scoring prompt.
ScoreReplies == { <<"9">>, <<"7", ".">>, <<"3">> }

\* Replies of the completion service to the synthesis prompt.
SynthesisReplies == { <<" ", "\n">>, <<"T", "e", "x", "t", ".">> }

\* The k-th article of a fetch: a PMID, a title of k characters, an
\* abstract of k-1 characters and k-1 authors.
Article(k) ==
    [PMID |-> Id(k),
     Title |-> [j \in 1..k |-> "t"],
     Abstract |-> [j \in 1..(k - 1) |-> "a"],
     Authors |-> [j \in 1..(k - 1) |-> <<"S", "m">>],
     Year |-> <<"2", "0", "2", "4">>]

ArticleLists == {[k \in 1..n |-> Article(k)] : n \in 0..MaxArticles}

\* Config.validate without the upper limit of RelevanceThreshold.
validate_NoUpperLimit(c) ==
    /\ c.PapersToUse >= 1
    /\ c.PapersToSearch >= 1
    /\ c.TargetWords >= 1
    /\ c.RelevanceThreshold >= 1

\* Config.validate
validate(c) ==
    /\ c.PapersToUse >= 1
    /\ c.PapersToSearch >= 1
    /\ c.TargetWords >= 1
    /\ c.RelevanceThreshold >= 1
    /\ c.RelevanceThreshold <= 10

\* []rune(s): a byte that is no UTF-8 becomes the rune U+FFFD.
ToRunes(s) == [k \in 1..Len(s) |-> IF s[k] = "xFF" THEN "uFFFD" ELSE s[k]]

\* truncate that adds "..." to whatever it returns.
truncate_AlwaysEllipsis(s, maxLen) ==
    IF maxLen <= 0 THEN <<>>
    ELSE SubSeq(ToRunes(s), 1, Min(Len(s), maxLen)) \o <<".", ".", ".">>

\* truncate: the first maxLen runes and "...", or s when it is no longer.
truncate(s, maxLen) ==
    IF maxLen <= 0 THEN <<>>
    ELSE IF Len(ToRunes(s)) <= maxLen THEN s
    ELSE SubSeq(ToRunes(s), 1, maxLen) \o <<".", ".", ".">>

\* scoreRe without its \b assertions.
ScoreMatchAt_NoBoundary(s, k) ==
    IF k + 1 <= Len(s) /\ s[k] = "1" /\ s[k + 1] = "0"
    THEN 2
    ELSE IF s[k] \in (Digits \ {"0"})
    THEN 1
    ELSE 0

\* scoreRe: \b(10|[1-9])\b matched at position k of s; the length of the
\* match, 0 if there is none.
ScoreMatchAt(s, k) ==
    IF /\ k + 1 <= Len(s)
       /\ s[k] = "1" /\ s[k + 1] = "0"
       /\ WordBoundary(s, k) /\ WordBoundary(s, k + 2)
    THEN 2
    ELSE IF /\ s[k] \in (Digits \ {"0"})
            /\ WordBoundary(s, k) /\ WordBoundary(s, k + 1)
    THEN 1
    ELSE 0

\* parseScore
parseScore(resp) ==
    LET s == TrimSpace(resp)
    IN  IF \A k \in 1..Len(s) : ScoreMatchAt(s, k) = 0
        THEN 5
        ELSE LET k == CHOOSE j \in 1..Len(s) :
                          /\ ScoreMatchAt(s, j) > 0
                          /\ \A h \in 1..(j - 1) : ScoreMatchAt(s, h) = 0
                 score == Atoi(SubSeq(s, k, k + ScoreMatchAt(s, k) - 1))
             IN  IF score >= 1 /\ score <= 10 THEN score ELSE 5

\* The number of characters of fmt's %d for n >= 0.
RECURSIVE DecimalLen(_)
DecimalLen(n) == IF n < 10 THEN 1 ELSE 1 + DecimalLen(n \div 10)

\* The length of scoreArticleRelevance's prompt without its arguments.
ScorePromptBase == 414

\* scoreArticleRelevance: the token estimate of one scoring call.
ScoreTokens(q, article, resp) ==
    [Input |-> (ScorePromptBase + Len(q) + Len(article.Title)
                + Len(truncate(article.Abstract, 500))) \div 4,
     Output |-> Max(Len(resp) \div 4, 1)]

\* firstAuthorKeyName for authors that are last names.
firstAuthorKeyName(article) ==
    IF Len(article.Authors) = 0 THEN <<>> ELSE TrimSpace(article.Authors[1])

\* inTextCiteKey
inTextCiteKey(article) ==
    LET n == firstAuthorKeyName(article)
        name == IF n = <<>> THEN <<"U","n","k","n","o","w","n">> ELSE n
        year == IF TrimSpace(article.Year) = <<>>
                THEN <<"n", ".", "d", ".">> ELSE TrimSpace(article.Year)
    IN  IF Len(article.Authors) <= 1
        THEN name \o <<",", " ">> \o year
        ELSE name \o <<" ","e","t"," ","a","l",".",","," ">> \o year

\* The length of generateSynthesis's prompt without its arguments, and of
\* one paper's part of it.
SynthesisPromptBase == 394

SynthesisPartBase == 26

NoAbstract == 23

\* generateSynthesis: the length of the part of the prompt for paper k.
SynthesisPartLen(papers, k) ==
    LET a == papers[k].Article
        abstract == IF Len(a.Abstract) = 0 THEN NoAbstract
                    ELSE Len(truncate(a.Abstract, 1500))
    IN  SynthesisPartBase + DecimalLen(k) + Len(inTextCiteKey(a)) + Len(a.PMID)
        + Len(a.Title) + abstract

RECURSIVE SumTo(_, _)
SumTo(f, n) == IF n = 0 THEN 0 ELSE f[n] + SumTo(f, n - 1)

\* generateSynthesis: the token estimate of the synthesis call.
SynthesisTokens(q, papers, words, synthesis) ==
    LET n == Len(papers)
        parts == SumTo([k \in 1..n |-> SynthesisPartLen(papers, k)], n) + 5 * (n - 1)
        keys == SumTo([k \in 1..n |-> Len(inTextCiteKey(papers[k].Article))], n)
                + 2 * (n - 1)
    IN  [Input |-> (SynthesisPromptBase + Len(q) + parts + DecimalLen(words) + keys)
                   \div 4,
         Output |-> Len(synthesis) \div 4]

\* scoreRelevance ending the run on every failed scoring call.
ScoringAborts_Always(ctxState, err) == TRUE

\* scoreRelevance recognising a cancellation by errors.Is on the error of
\* the call instead of ctx.Err().
ScoringAborts_ErrorsIs(ctxState, err) == err.wrapsCtx

\* scoreRelevance: a failed scoring call ends the run when the caller's
\* context is done (ctx.Err() != nil), whatever the error is.
ScoringAborts(ctxState, err) == ctxState # "active"

\* scoreRelevance: the neutral score of a paper whose call failed.
NeutralScore == 5

\* scoreRelevance giving up when at least half of the calls failed.
AllScoringFailed_Heuristic(n, count) == n > 0 /\ 2 * count >= n

\* scoreRelevance after its loop: every call failed.
AllScoringFailed(n, count) == n > 0 /\ count = n

\* The filter of step 4 keeping only scores above the threshold.
RECURSIVE FilterRelevant_Strict(_, _)
FilterRelevant_Strict(papers, threshold) ==
    IF Len(papers) = 0 THEN <<>>
    ELSE (IF Head(papers).RelevanceScore > threshold THEN <<Head(papers)>> ELSE <<>>)
         \o FilterRelevant_Strict(Tail(papers), threshold)

\* Synthesize, step 4: the papers that meet the threshold, in fetch order.
RECURSIVE FilterRelevant(_, _)
FilterRelevant(papers, threshold) ==
    IF Len(papers) = 0 THEN <<>>
    ELSE (IF Head(papers).RelevanceScore >= threshold THEN <<Head(papers)>> ELSE <<>>)
         \o FilterRelevant(Tail(papers), threshold)

\* sort.Slice by descending score: every order of papers that is sorted.
\* sort.Slice does not promise to keep equal elements in their order.
SortedOrders(papers) ==
    LET n == Len(papers)
        perms == {f \in [1..n -> 1..n] : \A a, b \in 1..n : a # b => f[a] # f[b]}
    IN  { [k \in 1..n |-> papers[f[k]]] : f \in
            {g \in perms : \A a, b \in 1..n :
                a < b => papers[g[a]].RelevanceScore >= papers[g[b]].RelevanceScore} }

\* fmt's %d for n >= 0.
RECURSIVE Itoa(_)
Itoa(n) ==
    LET d == <<<<"0","1","2","3","4","5","6","7","8","9">>[(n % 10) + 1]>>
    IN  IF n < 10 THEN d ELSE Itoa(n \div 10) \o d

\* normalizedYear
normalizedYear(year) ==
    IF TrimSpace(year) = <<>> THEN <<"n", ".", "d", ".">> ELSE TrimSpace(year)

\* buildReference: the key of the reference, the number of the paper unless
\* the first author has a name.
ReferenceKey(article, num) ==
    IF Len(article.Authors) > 0 /\ firstAuthorKeyName(article) # <<>>
    THEN firstAuthorKeyName(article) \o <<" ">> \o normalizedYear(article.Year)
    ELSE Itoa(num)

\* buildReference: the fields of a Reference the model keeps.
buildReference(article, num, relevance) ==
    [Key |-> ReferenceKey(article, num), PMID |-> article.PMID, Num |-> num,
     RelevanceScore |-> relevance]

EmptySynthResult ==
    [Question |-> <<>>, Synthesis |-> <<>>, PapersSearched |-> 0,
     PapersScored |-> 0, PapersUsed |-> 0, References |-> <<>>,
     Tokens |-> [Input |-> 0, Output |-> 0, Total |-> 0]]

SynthRetOk(r) == [kind |-> "ok", res |-> r, err |-> NoErr]

\* Synthesize returning the Result built so far along with the error.
SynthRetErr_WithResult(e) == [kind |-> "err", res |-> result, err |-> e]

SynthRetErr(e) == [kind |-> "err", res |-> EmptySynthResult, err |-> e]

\* A report that drops the count of the update.
report_NoCurrent(log, phase, current, total) ==
    Append(log, [Phase |-> phase, Current |-> 0, Total |-> total])

\* Engine.report: the callback receives the update.
report(log, phase, current, total) ==
    Append(log, [Phase |-> phase, Current |-> current, Total |-> total])

\* The capacity of progressCh (1024 in runSynthWithTUI).
ProgressChCap == 2

\* A callback that sends to progressCh without a default case.
TUICallback_Blocking(ch, u) ==
    IF Len(ch) < ProgressChCap THEN {Append(ch, u)} ELSE {}

\* runSynthWithTUI's callback: select { case progressCh <- u: default: }.
\* The channels it can leave; none would mean that it does not return.
TUICallback(ch, u) ==
    IF Len(ch) < ProgressChCap THEN {Append(ch, u)} ELSE {ch}

\* Engine.report: nothing without a callback, else the callback is called.
reportProgress(listener, ch, u) ==
    IF listener = "none" THEN {ch} ELSE TUICallback(ch, u)

\* Engine.report for each of updates in turn.
RECURSIVE reportEach(_, _, _)
reportEach(listener, ch, updates) ==
    IF updates = <<>> THEN {ch}
    ELSE UNION { reportEach(listener, c, Tail(updates)) :
                    c \in reportProgress(listener, ch, Head(updates)) }

\* What runSynthWithTUI's callback does to the channel's record when it is
\* called for reported updates of which the channel took accepted: a send on
\* a closed channel panics.
CallbackSends(t, reported, accepted) ==
    IF t.goroutine = "none" THEN t
    ELSE [t EXCEPT !.accepted = @ + accepted,
                   !.sentOnClosed = @ \/ (t.closed /\ reported > 0)]

\* The updates a step of the engine reports go through Engine.report; the
\* step goes on when the callback has returned for each.
Notify ==
    /\ progressCh' \in reportEach(progress, progressCh,
                                  SubSeq(events', Len(events) + 1, Len(events')))
    /\ tui' = CallbackSends(tui, Len(events') - Len(events),
                            Len(progressCh') - Len(progressCh))
    /\ UNCHANGED <<progress, uiModel>>
    /\ UNCHANGED ncbiVars
    /\ UNCHANGED pureVars

InitSynth ==
    /\ InitShared
    /\ cfg \in SynthConfigs
    /\ question \in SynthQuestions
    /\ result = EmptySynthResult
    /\ NoListener
    /\ NoApplication

\* Synthesize up to its first external call.
Synthesize ==
    /\ pc = "start"
    /\ IF ~validate(cfg)
       THEN /\ Return(SynthRetErr(NewErr("config", "invalid config")))
            /\ UNCHANGED <<result, events>>
       ELSE IF TrimSpace(question) = <<>>
       THEN /\ Return(SynthRetErr(NewErr("input", "")))
            /\ UNCHANGED <<result, events>>
       ELSE /\ result' = [EmptySynthResult EXCEPT !.Question = TrimSpace(question)]
            /\ events' = report(events, "search", 0, 0)
            /\ Issue("search", "", "synth_search")
            /\ UNCHANGED ret
    /\ UNCHANGED <<backend, ctx, cfg, question, returns>>
    /\ UNCHANGED <<ids, articles, idx, scored, errCount, firstErr, tokens, relevant>>
    /\ Notify

\* Synthesize, step 1: the search returns.
Synthesize_search ==
    /\ pc = "synth_search"
    /\ \E out \in Outcomes(IdLists) :
        /\ returns' = Append(returns, out)
        /\ IF ~out.ok
           THEN /\ Return(SynthRetErr(Wrap("search", CallError(call, Len(calls)))))
                /\ UNCHANGED <<result, events, ids>>
           ELSE IF Len(out.val) = 0
           THEN /\ Return(SynthRetErr(NewErr("business", "")))
                /\ result' = [result EXCEPT !.PapersSearched = 0]
                /\ UNCHANGED <<events, ids>>
           ELSE /\ ids' = out.val
                /\ result' = [result EXCEPT !.PapersSearched = Len(out.val)]
                /\ events' = report(events, "fetch", 0, 0)
                /\ Issue("fetch", "", "synth_fetch")
                /\ UNCHANGED ret
    /\ UNCHANGED <<backend, ctx, cfg, question>>
    /\ UNCHANGED <<articles, idx, scored, errCount, firstErr, tokens, relevant>>
    /\ Notify

\* Synthesize, step 2: the fetch returns; scoreRelevance issues its first
\* scoring call.
Synthesize_fetch ==
    /\ pc = "synth_fetch"
    /\ \E out \in Outcomes(ArticleLists) :
        /\ returns' = Append(returns, out)
        /\ IF ~out.ok
           THEN /\ Return(SynthRetErr(Wrap("fetch", CallError(call, Len(calls)))))
                /\ UNCHANGED <<events, articles>>
           ELSE IF Len(out.val) = 0
           THEN /\ Return(SynthRetErr(NewErr("business", "fetch")))
                /\ UNCHANGED <<events, articles>>
           ELSE /\ articles' = out.val
                /\ events' = report(report(events, "score", 0, Len(out.val)),
                                    "score", 0, Len(out.val))
                /\ Issue("complete", "score", "score")
                /\ UNCHANGED ret
    /\ UNCHANGED <<backend, ctx, cfg, question, result>>
    /\ UNCHANGED <<ids, idx, scored, errCount, firstErr, tokens, relevant>>
    /\ Notify

\* scoreRelevance: the error returned when the context is done (ctx.Err()).
ContextError(n) ==
    [kind |-> "context", src |-> n, stage |-> "", wrapsCtx |-> TRUE, onCancel |-> TRUE]

\* scoreRelevance: the error returned when every scoring call failed; it
\* wraps firstErr with %w.
AllFailedError(first) == [first EXCEPT !.kind = "allfailed"]

\* Synthesize, steps 4 to 6, once scoreRelevance returned papers: filter,
\* sort, cut to PapersToUse, build the references and issue the synthesis
\* call, or fail when no paper is left.
FilterAndCompose(papers, scoringTokens, log) ==
    LET r1 == [result EXCEPT !.PapersScored = Len(papers),
                             !.Tokens.Input = @ + scoringTokens.Input,
                             !.Tokens.Output = @ + scoringTokens.Output]
        log1 == report(log, "filter", 0, 0)
    IN  \E sorted \in SortedOrders(FilterRelevant(papers, cfg.RelevanceThreshold)) :
            LET used == SubSeq(sorted, 1, Min(Len(sorted), cfg.PapersToUse))
            IN  IF Len(used) = 0
                THEN /\ Return(SynthRetErr(NewErr("business", "")))
                     /\ result' = r1
                     /\ events' = log1
                     /\ relevant' = used
                ELSE /\ result' =
                          [r1 EXCEPT !.PapersUsed = Len(used),
                                     !.References =
                                         [k \in 1..Len(used) |->
                                             buildReference(used[k].Article, k,
                                                            used[k].RelevanceScore)]]
                     /\ events' = report(log1, "synthesis", 0, 0)
                     /\ relevant' = used
                     /\ Issue("complete", "synthesis", "compose")
                     /\ UNCHANGED ret

\* scoreRelevance: the scoring call of paper idx returns.  The loop goes on
\* to the next paper; after the last one scoreRelevance returns and
\* Synthesize goes on to its next external call.
scoreRelevance ==
    /\ pc = "score"
    /\ \E out \in Outcomes(ScoreReplies) :
        LET n == Len(articles)
            err == CallError(call, Len(calls))
        IN
        /\ returns' = Append(returns, out)
        /\ IF ~out.ok /\ ScoringAborts(ctx, err)
           THEN /\ Return(SynthRetErr(Wrap("relevance scoring", ContextError(Len(calls)))))
                /\ UNCHANGED <<result, idx, scored, errCount, firstErr, tokens,
                               relevant, events>>
           ELSE LET score == IF out.ok THEN parseScore(out.val) ELSE NeutralScore
                    used == IF out.ok
                            THEN ScoreTokens(result.Question, articles[idx + 1], out.val)
                            ELSE [Input |-> 0, Output |-> 0]
                    count == IF out.ok THEN errCount ELSE errCount + 1
                    first == IF ~out.ok /\ firstErr = NoErr THEN err ELSE firstErr
                    total == [Input |-> tokens.Input + used.Input,
                              Output |-> tokens.Output + used.Output]
                    papers == Append(scored, [Article |-> articles[idx + 1],
                                              RelevanceScore |-> score])
                    log == report(events, "score", idx + 1, n)
                IN  /\ scored' = papers
                    /\ errCount' = count
                    /\ firstErr' = first
                    /\ tokens' = total
                    /\ idx' = idx + 1
                    /\ IF idx + 1 < n
                       THEN /\ events' = report(log, "score", idx + 1, n)
                            /\ Issue("complete", "score", "score")
                            /\ UNCHANGED <<result, ret, relevant>>
                       ELSE IF AllScoringFailed(n, count)
                       THEN /\ Return(SynthRetErr(Wrap("relevance scoring",
                                                       AllFailedError(first))))
                            /\ events' = log
                            /\ UNCHANGED <<result, relevant>>
                       ELSE FilterAndCompose(papers, total, log)
    /\ UNCHANGED <<backend, ctx, cfg, question, ids, articles>>
    /\ Notify

\* A total that counts the input tokens only.
TokensTotal_InputOnly(t) == t.Input

\* Synthesize, step 7: Tokens.Total of the finished Result.
TokensTotal(t) == t.Input + t.Output

\* generateSynthesis: the synthesis call returns; Synthesize finishes.
generateSynthesis ==
    /\ pc = "compose"
    /\ \E out \in Outcomes(SynthesisReplies) :
        /\ returns' = Append(returns, out)
        /\ IF ~out.ok
           THEN /\ Return(SynthRetErr(Wrap("synthesis", CallError(call, Len(calls)))))
                /\ UNCHANGED <<result, events>>
           ELSE IF TrimSpace(out.val) = <<>>
           THEN /\ Return(SynthRetErr(Wrap("synthesis", NewErr("business", ""))))
                /\ UNCHANGED <<result, events>>
           ELSE LET t == SynthesisTokens(result.Question, relevant, cfg.TargetWords,
                                         TrimSpace(out.val))
                    r == [result EXCEPT
                            !.Synthesis = TrimSpace(out.val),
                            !.Tokens.Input = @ + t.Input,
                            !.Tokens.Output = @ + t.Output,
                            !.Tokens.Total =
                                TokensTotal([Input |-> result.Tokens.Input + t.Input,
                                             Output |-> result.Tokens.Output + t.Output])]
                IN  /\ result' = r
                    /\ events' = report(events, "ris", 0, 0)
                    /\ Return(SynthRetOk(r))
    /\ UNCHANGED <<backend, ctx, cfg, question>>
    /\ UNCHANGED <<ids, articles, idx, scored, errCount, firstErr, tokens, relevant>>
    /\ Notify

NextSynth ==
    \/ Synthesize
    \/ Synthesize_search
    \/ Synthesize_fetch
    \/ scoreRelevance
    \/ generateSynthesis
    \/ Cancel

SpecSynth == InitSynth /\ [][NextSynth]_vars

\* waitSynthProgress and synthProgressModel.Update: the progress UI
\* receives the next update of progressCh and shows it.
waitSynthProgress ==
    /\ progress = "tui"
    /\ tui.ui \in {"none", "running"}
    /\ Len(progressCh) > 0
    /\ uiModel' = Head(progressCh)
    /\ progressCh' = Tail(progressCh)
    /\ tui' = IF tui.ui = "none" THEN tui ELSE [tui EXCEPT !.received = @ + 1]
    /\ UNCHANGED <<backend, ctx, pc, cfg, question, call, calls, returns, result, ret>>
    /\ UNCHANGED synthVars
    /\ UNCHANGED progress
    /\ UNCHANGED ncbiVars
    /\ UNCHANGED pureVars

\* Synthesize of a question with a valid config, run without a callback or
\* by runSynthWithTUI.
InitProgress ==
    /\ InitShared
    /\ backend = "claude"
    /\ cfg \in {c \in SynthConfigs :
                  validate(c) /\ c.PapersToUse = 2 /\ c.RelevanceThreshold = 5}
    /\ question \in {q \in SynthQuestions : TrimSpace(q) # <<>>}
    /\ result = EmptySynthResult
    /\ progress \in {"none", "tui"}
    /\ progressCh = <<>>
    /\ uiModel = NoUpdate
    /\ tui = NoTUI
    /\ NoApplication

NextProgress ==
    \/ Synthesize
    \/ Synthesize_search
    \/ Synthesize_fetch
    \/ scoreRelevance
    \/ generateSynthesis
    \/ waitSynthProgress

SpecProgress == InitProgress /\ [][NextProgress]_vars

-----------------------------------------------------------------------------
(* cmd: runSynthWithTUI, the engine goroutine and the progress UI. *)

\* A goroutine that sends its outcome on an unbuffered channel: the send
\* goes through only while the receiver waits.
OutSend_Unbuffered(ch, v, receiving) == IF receiving THEN {Append(ch, v)} ELSE {}

\* out <- outcome on a channel of capacity 1: the channels the send can
\* leave, none when it blocks.
OutSend(ch, v, receiving) == IF Len(ch) < 1 THEN {Append(ch, v)} ELSE {}

\* A goroutine that can close progressCh before its body has finished.
CloseAt_Any(stage) == stage \in {"running", "sent"}

\* defer close(progressCh): the channel is closed when the goroutine's
\* function returns, after the send on out.
CloseAt(stage) == stage = "sent"

\* A function that returns the UI's error whatever happened.
TUIReturn_UIError(uiErr, o) == SynthRetErr(NewErr("ui", ""))

\* What runSynthWithTUI returns: (nil, uiErr), or the outcome received.
TUIReturn(uiErr, o) == IF uiErr THEN SynthRetErr(NewErr("ui", "")) ELSE o

\* cancel() of the context made by context.WithCancel.
CancelFunc ==
    /\ ctx' = IF ctx = "active" THEN "Canceled" ELSE ctx
    /\ \E early \in BOOLEAN :
          call' = IF call = NoCall \/ ctx # "active" THEN call
                  ELSE [call EXCEPT !.preCancelled = early]

\* runSynthWithTUI has made its channels, registered its callback, started
\* the goroutine and entered p.Run.
InitTUI ==
    /\ InitShared
    /\ backend = "claude"
    /\ cfg \in {c \in SynthConfigs :
                  validate(c) /\ c.PapersToUse = 2 /\ c.RelevanceThreshold = 5}
    /\ question \in {q \in SynthQuestions : TrimSpace(q) # <<>>}
    /\ result = EmptySynthResult
    /\ progress = "tui"
    /\ progressCh = <<>>
    /\ uiModel = NoUpdate
    /\ tui = [NoTUI EXCEPT !.goroutine = "running", !.ui = "running", !.main = "run"]
    /\ NoApplication

\* The goroutine: Synthesize has returned, its outcome is sent on out.
SendOutcome ==
    /\ tui.goroutine = "running"
    /\ pc = "done"
    /\ \E ch \in OutSend(tui.out, ret, tui.main \in {"wait", "drain"}) :
          tui' = [tui EXCEPT !.out = ch, !.goroutine = "sent"]
    /\ UNCHANGED engineVars
    /\ UNCHANGED synthVars
    /\ UNCHANGED <<progress, progressCh, uiModel>>
    /\ UNCHANGED ncbiVars
    /\ UNCHANGED pureVars

\* The goroutine: close(progressCh).
CloseProgress ==
    /\ CloseAt(tui.goroutine)
    /\ tui.closes < 2
    /\ tui' = [tui EXCEPT !.closed = TRUE,
                          !.closes = @ + 1,
                          !.goroutine = IF @ = "sent" THEN "exited" ELSE @]
    /\ UNCHANGED engineVars
    /\ UNCHANGED synthVars
    /\ UNCHANGED <<progress, progressCh, uiModel>>
    /\ UNCHANGED ncbiVars
    /\ UNCHANGED pureVars

\* Update, synthProgressDoneMsg: waitSynthProgress found progressCh closed
\* and empty; tea.Quit ends p.Run and runSynthWithTUI goes to o := <-out.
Update_done ==
    /\ tui.ui = "running"
    /\ tui.closed
    /\ progressCh = <<>>
    /\ tui' = [tui EXCEPT !.ui = "done", !.main = "wait", !.doneAfter = tui.received]
    /\ UNCHANGED engineVars
    /\ UNCHANGED synthVars
    /\ UNCHANGED <<progress, progressCh, uiModel>>
    /\ UNCHANGED ncbiVars
    /\ UNCHANGED pureVars

\* Update, tea.KeyMsg ctrl+c, esc or q: m.cancel() and tea.Quit; p.Run ends
\* and runSynthWithTUI goes to o := <-out.
Update_key ==
    /\ tui.ui = "running"
    /\ CancelFunc
    /\ tui' = [tui EXCEPT !.ui = "quit", !.main = "wait"]
    /\ UNCHANGED <<backend, pc, cfg, question, calls, returns, result, ret>>
    /\ UNCHANGED synthVars
    /\ UNCHANGED <<progress, progressCh, uiModel>>
    /\ UNCHANGED ncbiVars
    /\ UNCHANGED pureVars

\* p.Run returns an error: runSynthWithTUI calls cancel() and goes to <-out.
UIError ==
    /\ tui.ui = "running"
    /\ CancelFunc
    /\ tui' = [tui EXCEPT !.ui = "error", !.main = "drain"]
    /\ UNCHANGED <<backend, pc, cfg, question, calls, returns, result, ret>>
    /\ UNCHANGED synthVars
    /\ UNCHANGED <<progress, progressCh, uiModel>>
    /\ UNCHANGED ncbiVars
    /\ UNCHANGED pureVars

\* runSynthWithTUI receives from out and returns; the deferred cancel() runs.
ReceiveOutcome ==
    /\ tui.main \in {"wait", "drain"}
    /\ tui.out # <<>>
    /\ tui' = [tui EXCEPT !.out = Tail(@),
                          !.main = "returned",
                          !.retval = TUIReturn(tui.main = "drain", Head(tui.out))]
    /\ CancelFunc
    /\ UNCHANGED <<backend, pc, cfg, question, calls, returns, result, ret>>
    /\ UNCHANGED synthVars
    /\ UNCHANGED <<progress, progressCh, uiModel>>
    /\ UNCHANGED ncbiVars
    /\ UNCHANGED pureVars

\* The most articles a fetch returns in the runs of runSynthWithTUI.
MaxTUIArticles == 1

\* The goroutine's fetch returns.
TUI_fetch ==
    /\ Synthesize_fetch
    /\ Len(articles') <= MaxTUIArticles

\* The steps of the engine call made by the goroutine.
EngineStep ==
    \/ Synthesize
    \/ Synthesize_search
    \/ TUI_fetch
    \/ scoreRelevance
    \/ generateSynthesis

NextTUI ==
    \/ Synthesize
    \/ Synthesize_search
    \/ TUI_fetch
    \/ scoreRelevance
    \/ generateSynthesis
    \/ SendOutcome
    \/ CloseProgress
    \/ waitSynthProgress
    \/ Update_done
    \/ Update_key
    \/ UIError
    \/ ReceiveOutcome

SpecTUI == InitTUI /\ [][NextTUI]_vars

\* The goroutine and runSynthWithTUI are scheduled, every external call of
\* the engine returns (each has a timeout and ends when the context is
\* cancelled), and the UI loop handles the messages of waitSynthProgress.
\* Nothing makes the user press a key or the UI fail.
SpecTUIFair ==
    /\ InitTUI
    /\ [][NextTUI]_vars
    /\ WF_vars(EngineStep)
    /\ WF_vars(SendOutcome)
    /\ WF_vars(CloseProgress)
    /\ WF_vars(waitSynthProgress)
    /\ WF_vars(Update_done)
    /\ WF_vars(ReceiveOutcome)

-----------------------------------------------------------------------------

(* synth: SynthesizePMID, the summary of a single paper. *)

\* The pmids put to SynthesizePMID: empty, blank, and a padded id.
PMIDs == { <<>>, <<" ">>, <<" ">> \o Id(1) \o <<" ">> }

\* SynthesizePMID: the Result it starts from.
DeepDiveResult(pmid) ==
    [EmptySynthResult EXCEPT
        !.Question = <<"D","e","e","p"," ","d","i","v","e",":"," ","P","M","I","D"," ">>
                     \o pmid,
        !.PapersSearched = 1,
        !.PapersScored = 1,
        !.PapersUsed = 1]

\* A reference to the paper that carries the neutral score.
PMIDReference_Neutral(fetched) == buildReference(fetched[1], 1, 5)

\* SynthesizePMID: the reference to the first article fetched.
PMIDReference(fetched) == buildReference(fetched[1], 1, 10)

\* The length of SynthesizePMID's prompt without its arguments, and of the
\* texts that stand for a missing title and abstract.
DeepDivePromptBase == 219

NoTitle == 20

\* SynthesizePMID: the token estimate of its completion call.
DeepDiveTokens(article, words, synthesis) ==
    LET title == IF TrimSpace(article.Title) = <<>> THEN NoTitle
                 ELSE Len(TrimSpace(article.Title))
        abstract == IF TrimSpace(article.Abstract) = <<>> THEN NoAbstract
                    ELSE Len(truncate(TrimSpace(article.Abstract), 2500))
    IN  [Input |-> (DeepDivePromptBase + DecimalLen(words) + title + abstract
                    + Len(inTextCiteKey(article))) \div 4,
         Output |-> Len(synthesis) \div 4]

InitPMID ==
    /\ InitShared
    /\ cfg \in SynthConfigs
    /\ question \in PMIDs
    /\ result = EmptySynthResult
    /\ NoListener
    /\ NoApplication

\* SynthesizePMID up to its fetch call.
SynthesizePMID ==
    /\ pc = "start"
    /\ IF ~validate(cfg)
       THEN /\ Return(SynthRetErr(NewErr("config", "invalid config")))
            /\ UNCHANGED <<result, ids>>
       ELSE IF TrimSpace(question) = <<>>
       THEN /\ Return(SynthRetErr(NewErr("input", "")))
            /\ UNCHANGED <<result, ids>>
       ELSE /\ result' = DeepDiveResult(TrimSpace(question))
            /\ ids' = <<TrimSpace(question)>>
            /\ Issue("fetch", "", "pmid_fetch")
            /\ UNCHANGED ret
    /\ UNCHANGED <<backend, ctx, cfg, question, returns>>
    /\ UNCHANGED <<articles, idx, scored, errCount, firstErr, tokens, relevant, events>>
    /\ UNCHANGED tuiVars
    /\ UNCHANGED ncbiVars
    /\ UNCHANGED pureVars

\* SynthesizePMID: the fetch returns; the completion call is issued.
SynthesizePMID_fetch ==
    /\ pc = "pmid_fetch"
    /\ \E out \in Outcomes(ArticleLists) :
        /\ returns' = Append(returns, out)
        /\ IF ~out.ok
           THEN /\ Return(SynthRetErr(Wrap("fetch", CallError(call, Len(calls)))))
                /\ UNCHANGED <<result, articles>>
           ELSE IF Len(out.val) = 0
           THEN /\ Return(SynthRetErr(NewErr("business", "")))
                /\ UNCHANGED <<result, articles>>
           ELSE /\ articles' = out.val
                /\ result' = [result EXCEPT !.References = <<PMIDReference(out.val)>>]
                /\ Issue("complete", "deepdive", "pmid_compose")
                /\ UNCHANGED ret
    /\ UNCHANGED <<backend, ctx, cfg, question>>
    /\ UNCHANGED <<ids, idx, scored, errCount, firstErr, tokens, relevant, events>>
    /\ UNCHANGED tuiVars
    /\ UNCHANGED ncbiVars
    /\ UNCHANGED pureVars

\* SynthesizePMID: the completion returns; SynthesizePMID finishes.
SynthesizePMID_synthesis ==
    /\ pc = "pmid_compose"
    /\ \E out \in Outcomes(SynthesisReplies) :
        /\ returns' = Append(returns, out)
        /\ IF ~out.ok
           THEN /\ Return(SynthRetErr(Wrap("synthesis", CallError(call, Len(calls)))))
                /\ UNCHANGED result
           ELSE IF TrimSpace(out.val) = <<>>
           THEN /\ Return(SynthRetErr(NewErr("business", "synthesis")))
                /\ UNCHANGED result
           ELSE LET t == DeepDiveTokens(articles[1], cfg.TargetWords, TrimSpace(out.val))
                    r == [result EXCEPT
                            !.Synthesis = TrimSpace(out.val),
                            !.Tokens = [Input |-> t.Input, Output |-> t.Output,
                                        Total |-> TokensTotal(t)]]
                IN  /\ result' = r
                    /\ Return(SynthRetOk(r))
    /\ UNCHANGED <<backend, ctx, cfg, question>>
    /\ UNCHANGED synthVars
    /\ UNCHANGED tuiVars
    /\ UNCHANGED ncbiVars
    /\ UNCHANGED pureVars

NextPMID ==
    \/ SynthesizePMID
    \/ SynthesizePMID_fetch
    \/ SynthesizePMID_synthesis
    \/ Cancel

SpecPMID == InitPMID /\ [][NextPMID]_vars

-----------------------------------------------------------------------------
(* ncbi: BaseClient.DoGet, called concurrently on one client.  Time is      *)
(* counted in thirds of a second, the period of the limiter without an API  *)
(* key: tokens granted a third of a second apart or more fall into          *)
(* different thirds, and a request is sent in the third in which its token  *)
(* was granted.                                                             *)

ncbiMaxRetries == 2

\* The last third of a second the model counts to.
MaxClock == 6

\* What HTTPClient.Do returns: a response with a status, or an error.
Responses == {"200", "429", "500", "transport"}

\* DoGet taking a token only for the first attempt of a call.
NeedsToken_FirstOnly(attempt) == attempt = 0

\* DoGet: Limiter.Wait is the first statement of the loop body, so every
\* attempt takes a token.
NeedsToken(attempt) == TRUE

\* DoGet never giving up on a 429.
RetriesExhausted_Never(attempt) == FALSE

\* DoGet on a 429: no retry is left.
RetriesExhausted(attempt) == attempt >= ncbiMaxRetries

Sum4(w) == w[1] + w[2] + w[3] + w[4]

\* DoGet is called: the URL is built and the loop entered.
DoGet(c) ==
    /\ doGet[c].pc = "idle"
    /\ doGet' = [doGet EXCEPT ![c].pc = "wait"]
    /\ UNCHANGED <<clock, limiter, window>>
    /\ UNCHANGED engineVars
    /\ UNCHANGED synthVars
    /\ UNCHANGED tuiVars
    /\ UNCHANGED pureVars

\* DoGet, one turn of the loop up to HTTPClient.Do: Limiter.Wait returns
\* with a token and the request is sent, or it fails as the context is done.
DoGet_attempt(c) ==
    /\ doGet[c].pc = "wait"
    /\ IF ctx # "active"
       THEN /\ doGet' = [doGet EXCEPT ![c].pc = "done", ![c].ret = "ctx"]
            /\ UNCHANGED <<limiter, window>>
       ELSE /\ NeedsToken(doGet[c].attempt) => limiter >= 1
            /\ limiter' = IF NeedsToken(doGet[c].attempt) THEN limiter - 1 ELSE limiter
            /\ window' = [window EXCEPT ![4] = @ + 1]
            /\ doGet' = [doGet EXCEPT ![c].pc = "do", ![c].sent = @ + 1]
    /\ UNCHANGED clock
    /\ UNCHANGED engineVars
    /\ UNCHANGED synthVars
    /\ UNCHANGED tuiVars
    /\ UNCHANGED pureVars

\* DoGet, the rest of the turn: HTTPClient.Do returns.
DoGet_response(c) ==
    /\ doGet[c].pc = "do"
    /\ \E r \in (IF ctx = "active" THEN Responses ELSE {"transport"}) :
          LET d == [doGet[c] EXCEPT !.resps = Append(@, r)]
          IN  doGet' = [doGet EXCEPT ![c] =
                  IF r = "transport" THEN [d EXCEPT !.pc = "done", !.ret = "transport"]
                  ELSE IF r = "429"
                  THEN (IF RetriesExhausted(d.attempt)
                        THEN [d EXCEPT !.pc = "done", !.ret = "429"]
                        ELSE [d EXCEPT !.pc = "sleep"])
                  ELSE IF r # "200" THEN [d EXCEPT !.pc = "done", !.ret = "status"]
                  ELSE [d EXCEPT !.pc = "done", !.ret = "ok"]]
    /\ UNCHANGED <<clock, limiter, window>>
    /\ UNCHANGED engineVars
    /\ UNCHANGED synthVars
    /\ UNCHANGED tuiVars
    /\ UNCHANGED pureVars

\* DoGet after a 429: sleepWithContext returns and the loop goes on, or
\* fails as the context is done.
DoGet_retry(c) ==
    /\ doGet[c].pc = "sleep"
    /\ \/ /\ ctx # "active"
          /\ doGet' = [doGet EXCEPT ![c].pc = "done", ![c].ret = "ctx"]
       \/ /\ doGet' = [doGet EXCEPT ![c] =
                 IF doGet[c].attempt + 1 <= ncbiMaxRetries
                 THEN [@ EXCEPT !.pc = "wait", !.attempt = @ + 1]
                 ELSE [@ EXCEPT !.pc = "done", !.attempt = @ + 1, !.ret = "unreachable"]]
    /\ UNCHANGED <<clock, limiter, window>>
    /\ UNCHANGED engineVars
    /\ UNCHANGED synthVars
    /\ UNCHANGED tuiVars
    /\ UNCHANGED pureVars

\* A third of a second passes: the limiter has a token again, at most 1.
Tick ==
    /\ clock < MaxClock
    /\ clock' = clock + 1
    /\ limiter' = 1
    /\ window' = <<window[2], window[3], window[4], 0>>
    /\ UNCHANGED doGet
    /\ UNCHANGED engineVars
    /\ UNCHANGED synthVars
    /\ UNCHANGED tuiVars
    /\ UNCHANGED pureVars

InitDoGet ==
    /\ InitShared
    /\ backend = "claude"
    /\ cfg \in {c \in SynthConfigs :
                  validate(c) /\ c.PapersToUse = 2 /\ c.RelevanceThreshold = 5}
    /\ question = <<>>
    /\ result = EmptySynthResult
    /\ NoListener
    /\ NoApplication

NextDoGet ==
    \/ \E c \in Callers : DoGet(c)
    \/ \E c \in Callers : DoGet_attempt(c)
    \/ \E c \in Callers : DoGet_response(c)
    \/ \E c \in Callers : DoGet_retry(c)
    \/ Tick
    \/ Cancel

SpecDoGet == InitDoGet /\ [][NextDoGet]_vars

-----------------------------------------------------------------------------
(* synth: truncate, applied to its own result. *)

\* The longest string and the largest maxLen truncate is applied to.
MaxLen == 4

MaxTruncate == 5

\* Strings of letters, dots and bytes that are no UTF-8.
RECURSIVE StringsUpTo(_)
StringsUpTo(n) ==
    IF n = 0 THEN {<<>>}
    ELSE StringsUpTo(n - 1) \cup
         {Append(s, ch) : s \in {t \in StringsUpTo(n - 1) : Len(t) = n - 1},
                          ch \in {"a", ".", "xFF"}}

InitTruncate ==
    /\ InitShared
    /\ backend = "claude"
    /\ cfg \in {c \in SynthConfigs :
                  validate(c) /\ c.PapersToUse = 2 /\ c.RelevanceThreshold = 5}
    /\ question = <<>>
    /\ result = EmptySynthResult
    /\ NoListener
    /\ args \in [s : StringsUpTo(MaxLen), maxLen : 0..MaxTruncate]
    /\ value = <<>>

\* truncate is applied to s, then to what it returned.
Truncate ==
    /\ Len(value) < 2
    /\ value' = Append(value, truncate(IF value = <<>> THEN args.s ELSE value[Len(value)],
                                       args.maxLen))
    /\ UNCHANGED args
    /\ UNCHANGED engineVars
    /\ UNCHANGED synthVars
    /\ UNCHANGED tuiVars
    /\ UNCHANGED ncbiVars

NextTruncate == Truncate

SpecTruncate == InitTruncate /\ [][NextTruncate]_vars

-----------------------------------------------------------------------------
(* synth: parseScore, applied to a model's reply. *)

\* The longest reply built from ScoreChars.
MaxScoreLen == 4

ScoreChars == {"1", "0", "5", "-", "a", " "}

RECURSIVE RepliesUpTo(_)
RepliesUpTo(n) ==
    IF n = 0 THEN {<<>>}
    ELSE RepliesUpTo(n - 1) \cup
         {Append(s, ch) : s \in {t \in RepliesUpTo(n - 1) : Len(t) = n - 1},
                          ch \in ScoreChars}

\* The inputs of TestParseScore.
TestParseScoreInputs ==
    {<<"7">>, <<" "," ","8"," "," ">>,
     <<"T","h","e"," ","s","c","o","r","e"," ","i","s"," ","9">>,
     <<"1","0">>, <<"1">>, <<"0">>, <<"-","3">>, <<"1","1">>, <<"1","5">>,
     <<"h","i","g","h">>, <<>>, <<" "," "," ">>,
     <<"2"," ","t","h","e","n"," ","8">>, <<"7",".">>, <<"(","6",")">>,
     <<"R","a","t","i","n","g",":"," ","5","/","1","0">>}

\* The engine is idle while a pure function is applied.
IdleEngine ==
    /\ InitShared
    /\ backend = "claude"
    /\ cfg \in {c \in SynthConfigs :
                  validate(c) /\ c.PapersToUse = 2 /\ c.RelevanceThreshold = 5}
    /\ question = <<>>
    /\ result = EmptySynthResult
    /\ NoListener

InitParseScore ==
    /\ IdleEngine
    /\ args \in [s : RepliesUpTo(MaxScoreLen) \cup TestParseScoreInputs]
    /\ value = <<>>

ParseScore ==
    /\ value = <<>>
    /\ value' = <<parseScore(args.s)>>
    /\ UNCHANGED args
    /\ UNCHANGED engineVars
    /\ UNCHANGED synthVars
    /\ UNCHANGED tuiVars
    /\ UNCHANGED ncbiVars

NextParseScore == ParseScore

SpecParseScore == InitParseScore /\ [][NextParseScore]_vars

-----------------------------------------------------------------------------

(* qa: MinifyAbstract. *)

\* The shortest sentence MinifyAbstract keeps.
MinSentenceLen == 20

\* The most sentences of an abstract, and the largest maxChars.
MaxSentences == 2

MaxChars == 46

IsPunct(c) == c \in {".", "!", "?"}

\* The regexp class \s.
RegexpSpace(c) == c \in {" ", "\t", "\n", "\f", "\r"}

\* The last position of the run of characters of a class ([.!?] or \s)
\* that starts after position p of s; p if there is none.
RunEnd(s, p, class) ==
    LET In(c) == IF class = "punct" THEN IsPunct(c) ELSE RegexpSpace(c)
    IN  CHOOSE j \in p..Len(s) :
            /\ \A h \in (p + 1)..j : In(s[h])
            /\ (j = Len(s) \/ ~In(s[j + 1]))

\* sentencePattern.Split(text, -1), from position k of s on: the pieces
\* between the matches of [.!?]+\s*.
RECURSIVE SplitSentences(_, _)
SplitSentences(s, k) ==
    IF \A i \in k..Len(s) : ~IsPunct(s[i])
    THEN <<SubSeq(s, k, Len(s))>>
    ELSE LET i == CHOOSE j \in k..Len(s) :
                      IsPunct(s[j]) /\ \A h \in k..(j - 1) : ~IsPunct(s[h])
             q == RunEnd(s, RunEnd(s, i, "punct"), "space")
         IN  <<SubSeq(s, k, i - 1)>> \o SplitSentences(s, q + 1)

keyTerms ==
    {<<"c","o","n","c","l","u","s","i","o","n">>,
     <<"r","e","s","u","l","t">>,
     <<"f","o","u","n","d">>,
     <<"s","h","o","w","e","d">>,
     <<"d","e","m","o","n","s","t","r","a","t","e","d">>,
     <<"s","i","g","n","i","f","i","c","a","n","t">>,
     <<"e","f","f","e","c","t","i","v","e">>,
     <<"i","m","p","r","o","v","e","d">>,
     <<"r","e","d","u","c","e","d">>,
     <<"i","n","c","r","e","a","s","e","d">>,
     <<"a","s","s","o","c","i","a","t","e","d">>,
     <<"c","o","m","p","a","r","e","d">>,
     <<"o","u","t","c","o","m","e">>,
     <<"a","c","c","u","r","a","c","y">>,
     <<"s","e","n","s","i","t","i","v","i","t","y">>,
     <<"s","p","e","c","i","f","i","c","i","t","y">>,
     <<"p","o","o","l","e","d">>,
     <<"m","e","t","a","-","a","n","a","l","y","s","i","s">>}

\* labelPattern: (?i)^(results?|conclusions?|findings?)\s*:
labelPattern(s) ==
    \E w \in {<<"r","e","s","u","l","t","s">>,
              <<"r","e","s","u","l","t">>,
              <<"c","o","n","c","l","u","s","i","o","n","s">>,
              <<"c","o","n","c","l","u","s","i","o","n">>,
              <<"f","i","n","d","i","n","g","s">>,
              <<"f","i","n","d","i","n","g">>} :
        /\ MatchAt(ToLower(s), w, 1)
        /\ RunEnd(s, Len(w), "space") < Len(s)
        /\ s[RunEnd(s, Len(w), "space") + 1] = ":"

\* statPattern: \d+%|\d+\.\d+|95%\s*CI|p\s*[<=]
statPattern(s) ==
    \E k \in 1..Len(s) :
        \/ /\ IsDigit(s[k])
           /\ k + 1 <= Len(s) /\ s[k + 1] = "%"
        \/ /\ IsDigit(s[k])
           /\ k + 2 <= Len(s) /\ s[k + 1] = "." /\ IsDigit(s[k + 2])
        \/ /\ MatchAt(s, <<"9","5","%">>, k)
           /\ \E j \in (k + 2)..Len(s) :
                 /\ \A h \in (k + 3)..j : RegexpSpace(s[h])
                 /\ MatchAt(s, <<"C","I">>, j + 1)
        \/ /\ s[k] = "p"
           /\ \E j \in k..Len(s) :
                 /\ \A h \in (k + 1)..j : RegexpSpace(s[h])
                 /\ j + 1 <= Len(s) /\ s[j + 1] \in {"<", "="}

\* The score MinifyAbstract gives a sentence.
SentenceScore(s) ==
    Cardinality({term \in keyTerms : Contains(ToLower(s), term)})
    + (IF labelPattern(s) THEN 3 ELSE 0)
    + (IF statPattern(s) THEN 2 ELSE 0)

\* The scored sentences: the pieces of at least MinSentenceLen bytes, trimmed.
RECURSIVE ScoredSentences(_)
ScoredSentences(pieces) ==
    IF pieces = <<>> THEN <<>>
    ELSE LET s == TrimSpace(Head(pieces))
         IN  (IF Len(s) < MinSentenceLen THEN <<>>
              ELSE <<[score |-> SentenceScore(s), text |-> s]>>)
             \o ScoredSentences(Tail(pieces))

\* sort.Slice by descending score: every order of the sentences that is
\* sorted.
SortedSentences(ss) ==
    LET n == Len(ss)
        perms == {f \in [1..n -> 1..n] : \A a, b \in 1..n : a # b => f[a] # f[b]}
    IN  { [k \in 1..n |-> ss[f[k]]] : f \in
            {g \in perms : \A a, b \in 1..n :
                a < b => ss[g[a]].score >= ss[g[b]].score} }

\* The loop that takes every sentence, whatever maxChars is.
RECURSIVE TakeBest_NoLimit(_, _, _)
TakeBest_NoLimit(ss, total, maxChars) ==
    IF ss = <<>> THEN <<>>
    ELSE <<Head(ss).text>>
         \o TakeBest_NoLimit(Tail(ss), total + Len(Head(ss).text) + 2, maxChars)

\* The loop that takes the best sentences up to maxChars.
RECURSIVE TakeBest(_, _, _)
TakeBest(ss, total, maxChars) ==
    IF ss = <<>> \/ total + Len(Head(ss).text) > maxChars THEN <<>>
    ELSE <<Head(ss).text>>
         \o TakeBest(Tail(ss), total + Len(Head(ss).text) + 2, maxChars)

\* strings.Join(result, ". ")
RECURSIVE Join(_)
Join(elems) ==
    IF Len(elems) = 0 THEN <<>>
    ELSE IF Len(elems) = 1 THEN elems[1]
    ELSE elems[1] \o <<".", " ">> \o Join(Tail(elems))

\* MinifyAbstract: the strings it can return, one for each order the sort can
\* leave the sentences in.
MinifyAbstract(text, maxChars) ==
    IF text = <<>> \/ Len(text) <= maxChars THEN {text}
    ELSE { LET taken == TakeBest(o, 0, maxChars)
           IN  IF Len(taken) = 0 THEN SubSeq(text, 1, maxChars)
               ELSE Join(taken) \o <<".">> :
           o \in SortedSentences(ScoredSentences(SplitSentences(text, 1))) }

\* Sentences of an abstract: one with a label, a key term and a statistic,
\* a plain one, and one too short to be kept.
SentenceBodies ==
    {<<"R","e","s","u","l","t","s",":"," ","i","m","p","r","o","v","e","d"," ","5","%">>,
     <<"w","e"," ","e","n","r","o","l","l","e","d"," ","t","e","n"," ","a","d","u","l","t","s">>,
     <<"s","h","o","r","t">>}

SentenceEnds == {<<".">>, <<"?", "!", " ">>, <<>>}

RECURSIVE AbstractsUpTo(_)
AbstractsUpTo(n) ==
    IF n = 0 THEN {<<>>}
    ELSE AbstractsUpTo(n - 1) \cup
         {t \o b \o e : t \in AbstractsUpTo(n - 1),
                        b \in SentenceBodies, e \in SentenceEnds}

InitMinify ==
    /\ IdleEngine
    /\ args \in [text : AbstractsUpTo(MaxSentences), maxChars : 0..MaxChars]
    /\ value = <<>>

Minify ==
    /\ value = <<>>
    /\ \E r \in MinifyAbstract(args.text, args.maxChars) : value' = <<r>>
    /\ UNCHANGED args
    /\ UNCHANGED engineVars
    /\ UNCHANGED synthVars
    /\ UNCHANGED tuiVars
    /\ UNCHANGED ncbiVars

NextMinify == Minify

SpecMinify == InitMinify /\ [][NextMinify]_vars

-----------------------------------------------------------------------------

(* llm: the command line of the Codex and Claude subprocesses. *)

SandboxReadOnly == "read-only"

SandboxWorkspace == "workspace-write"

SandboxFullAccess == "danger-full-access"

\* Sandbox modes a SecurityConfig can hold without --unsafe: the named ones
\* but full access, the zero value and a string that IsValid rejects.
SafeSandboxModes == {SandboxReadOnly, SandboxWorkspace, "", "bogus"}

\* The fields of SecurityConfig that reach the command line.
DefaultSecurityConfig == [SandboxMode |-> SandboxReadOnly, AllowToolUse |-> FALSE]

ForQA == [SandboxMode |-> SandboxReadOnly, AllowToolUse |-> FALSE]

ForSynthesis == [SandboxMode |-> SandboxReadOnly, AllowToolUse |-> FALSE]

WithFullAccess(c) == [c EXCEPT !.SandboxMode = SandboxFullAccess, !.AllowToolUse = TRUE]

\* NewCodexClient with the option WithSecurityConfig(security).
NewCodexClient(model, security) ==
    [kind |-> "codex",
     model |-> IF model = "" THEN "gpt-5.3-codex" ELSE model,
     security |-> security]

\* NewClaudeClientWithOptions with WithClaudeSecurityConfig(security).
NewClaudeClientWithOptions(model, opus, security) ==
    [kind |-> "claude",
     model |-> IF model # "" THEN model ELSE IF opus THEN "opus" ELSE "sonnet",
     security |-> security]

\* NewClaudeClient: no security option, so the default one.
NewClaudeClient(model) == NewClaudeClientWithOptions(model, FALSE, DefaultSecurityConfig)

\* llm.NewClient: the HTTP client, which starts no subprocess.
NewClient(model) == [kind |-> "openai", model |-> model, security |-> DefaultSecurityConfig]

\* createQAClient and createSynthLLMClient: the client for the flags f.
createLLMClient(base, f) ==
    LET securityCfg == IF f.unsafe THEN WithFullAccess(base) ELSE base
    IN  IF f.backend = "codex" THEN NewCodexClient(f.model, securityCfg)
        ELSE IF f.backend = "claude"
        THEN NewClaudeClientWithOptions(f.model, f.opus, securityCfg)
        ELSE NewClient(f.model)

\* The wizard's buildLLMClient.
buildLLMClient(f) ==
    IF f.backend = "claude" THEN NewClaudeClient(f.model) ELSE NewClient(f.model)

\* CodexClient.Complete: the sandbox arguments.
CodexSandboxArgs(mode) ==
    IF mode = SandboxFullAccess THEN <<"--dangerously-bypass-approvals-and-sandbox">>
    ELSE IF mode = SandboxWorkspace THEN <<"--sandbox", "workspace-write">>
    ELSE <<"--sandbox", "read-only">>

\* The sandbox arguments of a client that always skips the permission checks.
ClaudeSandboxArgs_Always(mode) == <<"--dangerously-skip-permissions">>

\* ClaudeClient.Complete: the sandbox arguments.
ClaudeSandboxArgs(mode) ==
    IF mode = SandboxFullAccess THEN <<"--dangerously-skip-permissions">> ELSE <<>>

\* The arguments of the subprocess Complete starts for a prompt.
CommandArgs(client, prompt) ==
    IF client.kind = "codex"
    THEN <<"exec", "--skip-git-repo-check", "--color", "never",
           "--model", client.model, "-c", "model_reasoning_effort", "-o", "tmpPath">>
         \o CodexSandboxArgs(client.security.SandboxMode) \o <<prompt>>
    ELSE <<"-p", "--output-format", "text", "--model", client.model, "--max-turns", "1">>
         \o ClaudeSandboxArgs(client.security.SandboxMode) \o <<"--", prompt>>

\* The command lines a user can give: qa and synth take --unsafe, --codex,
\* --claude, --opus and --model; the wizard takes its backend from its
\* configuration; a caller of the package sets the sandbox mode by option.
Flags ==
    [command : {"qa", "synth"}, backend : {"codex", "claude", "openai"},
     unsafe : BOOLEAN, opus : BOOLEAN, model : {"", "m"}, mode : {SandboxReadOnly}]
    \cup
    [command : {"wizard"}, backend : {"claude", "openai"},
     unsafe : {FALSE}, opus : {FALSE}, model : {"", "m"}, mode : {SandboxReadOnly}]
    \cup
    [command : {"option"}, backend : {"codex", "claude"},
     unsafe : {FALSE}, opus : {FALSE}, model : {"", "m"}, mode : SafeSandboxModes]

InitLLM ==
    /\ IdleEngine
    /\ args \in Flags
    /\ value = <<>>

\* The command builds its client.
CreateClient ==
    /\ value = <<>>
    /\ value' = << IF args.command = "qa" THEN createLLMClient(ForQA, args)
                   ELSE IF args.command = "synth" THEN createLLMClient(ForSynthesis, args)
                   ELSE IF args.command = "wizard" THEN buildLLMClient(args)
                   ELSE IF args.backend = "codex"
                   THEN NewCodexClient(args.model, [DefaultSecurityConfig EXCEPT !.SandboxMode = args.mode])
                   ELSE NewClaudeClientWithOptions(args.model, FALSE,
                            [DefaultSecurityConfig EXCEPT !.SandboxMode = args.mode]) >>
    /\ UNCHANGED args
    /\ UNCHANGED engineVars
    /\ UNCHANGED synthVars
    /\ UNCHANGED tuiVars
    /\ UNCHANGED ncbiVars

\* Complete on a Codex or Claude client: the prompt is rejected by
\* SanitizePromptWithConfig, or the subprocess is started.
Complete ==
    /\ Len(value) = 1
    /\ value[1].kind \in {"codex", "claude"}
    /\ \E valid \in BOOLEAN :
          value' = Append(value,
                      IF valid
                      THEN [started |-> TRUE, argv |-> CommandArgs(value[1], "prompt")]
                      ELSE [started |-> FALSE, argv |-> <<>>])
    /\ UNCHANGED args
    /\ UNCHANGED engineVars
    /\ UNCHANGED synthVars
    /\ UNCHANGED tuiVars
    /\ UNCHANGED ncbiVars

NextLLM ==
    \/ CreateClient
    \/ Complete

SpecLLM == InitLLM /\ [][NextLLM]_vars

-----------------------------------------------------------------------------

(* qa: getConfidence's parse, applied to a model's reply. *)

\* Replies to the confidence prompt: the ones of ConfidenceReplies, and a
\* short text after nothing, after a confidence label and after the label
\* as the prompt spells it.
ConfidenceInputs ==
    ConfidenceReplies \cup
    {label \o t : label \in {<<>>,
                             <<"c","o","n","f","i","d","e","n","c","e",":">>,
                             <<"C","O","N","F","I","D","E","N","C","E"," ",
                               "(","1","-","1","0",")",":"," ">>},
                  t \in RepliesUpTo(MaxScoreLen)}

InitConfidence ==
    /\ IdleEngine
    /\ args \in [resp : ConfidenceInputs]
    /\ value = <<>>

ParseReply ==
    /\ value = <<>>
    /\ value' = <<ParseConfidence(args.resp)>>
    /\ UNCHANGED args
    /\ UNCHANGED engineVars
    /\ UNCHANGED synthVars
    /\ UNCHANGED tuiVars
    /\ UNCHANGED ncbiVars

NextConfidence == ParseReply

SpecConfidence == InitConfidence /\ [][NextConfidence]_vars

-----------------------------------------------------------------------------

(* Properties of Answer. *)

\* Whether call k of the run was a search that returned zero ids.
ZeroHitSearch(k) ==
    /\ k <= Len(returns)
    /\ calls[k].kind = "search"
    /\ returns[k].ok
    /\ returns[k].val = <<>>

C2_ConfidentParametric ==
    ( /\ ~cfg.ForceRetrieval
      /\ ~cfg.ForceParametric
      /\ ~DetectNovelty(question)
      /\ Len(returns) >= 1
      /\ returns[1].ok
      /\ ParseConfidence(returns[1].val) >= cfg.ConfidenceThreshold ) =>
        /\ pc = "done"
        /\ ret.kind = "ok"
        /\ ret.res.Strategy = StrategyParametric
        /\ ret.res.Answer = YesNo(returns[1].val)
        /\ Len(calls) = 1
        /\ calls[1].kind = "complete"

\* C2 happens: the reported confidence equals the threshold.
C2_Witness ==
    /\ pc = "done"
    /\ ret.kind = "ok"
    /\ ~cfg.ForceRetrieval /\ ~cfg.ForceParametric /\ ~DetectNovelty(question)
    /\ Len(returns) = 1
    /\ returns[1].ok
    /\ ParseConfidence(returns[1].val) = cfg.ConfidenceThreshold
    /\ ret.res.Answer = "yes"

\* C3: with ForceParametric set, Answer makes no search and no fetch call.
C3_ForceParametricNeverRetrieves ==
    cfg.ForceParametric =>
        \A k \in 1..Len(calls) : calls[k].kind \notin {"search", "fetch"}

\* C4: after a search that succeeded with zero ids there is no fetch call,
\* exactly one further call, a completion without evidence, and a returned
\* result has a yes/no answer, no source ids and no context.
C4_ZeroHitFallback ==
    \A k \in 1..Len(returns) :
        ZeroHitSearch(k) =>
            /\ \A j \in 1..Len(calls) : calls[j].kind # "fetch"
            /\ Len(calls) = k + 1
            /\ calls[k + 1].kind = "complete"
            /\ calls[k + 1].purpose = "bare"
            /\ ret.kind = "ok" =>
                  /\ ret.res.Answer \in {"yes", "no"}
                  /\ ret.res.SourcePMIDs = <<>>
                  /\ ret.res.MinifiedContext = <<>>

\* C4 happens: a low confidence, then a search with zero hits, answered.
C4_Witness ==
    /\ pc = "done"
    /\ ret.kind = "ok"
    /\ ZeroHitSearch(2)
    /\ Len(returns) = 3

\* C5: a call that returned an error is the last call of the run, and the
\* run returned that error and no result; a bare yes/no completion issued
\* after a search follows a search that succeeded with zero ids.
C5_ErrorsAbort ==
    /\ \A k \in 1..Len(returns) :
           ~returns[k].ok =>
               /\ pc = "done"
               /\ ret.kind = "err"
               /\ ret.res = EmptyResult
               /\ ret.err.src = k
               /\ Len(calls) = k
    /\ \A k \in 2..Len(calls) :
           (calls[k].purpose = "bare" /\ \E j \in 1..(k - 1) : calls[j].kind = "search")
               => ZeroHitSearch(k - 1)

\* C5 happens: the fetch fails while the context is live.
C5_Witness ==
    /\ pc = "done"
    /\ ctx = "active"
    /\ Len(calls) >= 2
    /\ calls[Len(calls)].kind = "fetch"
    /\ ~returns[Len(returns)].ok
    /\ ret.kind = "err"

\* C28: every error that Synthesize or Answer returns because an external
\* call (search, fetch, scoring or confidence completion, compose or answer
\* completion) failed carries the name of the stage in which it failed, on
\* every path, the forced-parametric and the zero-hit fallback paths of
\* Answer included.
C28_ErrorNamesStage ==
    (pc = "done" /\ ret.kind = "err"
        /\ ret.err.kind \in {"call", "context", "allfailed"}) =>
        ret.err.stage \in {"search", "fetch", "confidence check", "answer",
                           "relevance scoring", "synthesis"}

-----------------------------------------------------------------------------
(* Properties of Synthesize. *)

\* The scoring call of paper k is call 2 + k of the run, after the search
\* and the fetch; whether it has returned.
ScoringReturned(k) == Len(articles) >= k /\ Len(returns) >= 2 + k

\* No scoring call of papers 1..k returned with the caller's context done.
NoCancelUpTo(k) == \A j \in 1..k : ~returns[2 + j].cancelled

\* The scoring calls that have returned an error.
FailedScorings == {k \in 1..Len(articles) : ScoringReturned(k) /\ ~returns[2 + k].ok}

\* C6: with PapersToUse, PapersToSearch or TargetWords below 1, with
\* RelevanceThreshold outside 1..10, or with a question that is empty after
\* trimming, Synthesize makes no call and emits no progress event, and what
\* it returns is an error.
C6_InvalidInputFailsFast ==
    ( \/ cfg.PapersToUse < 1
      \/ cfg.PapersToSearch < 1
      \/ cfg.TargetWords < 1
      \/ cfg.RelevanceThreshold < 1
      \/ cfg.RelevanceThreshold > 10
      \/ TrimSpace(question) = <<>> ) =>
        /\ calls = <<>>
        /\ events = <<>>
        /\ pc \in {"start", "done"}
        /\ pc = "done" => (ret.kind = "err" /\ ret.res = EmptySynthResult)

\* C6 happens: a valid config and a question of white space only, refused.
C6_Witness ==
    /\ pc = "done"
    /\ ret.kind = "err"
    /\ ret.err.kind = "input"
    /\ cfg.PapersToUse >= 1 /\ cfg.PapersToSearch >= 1 /\ cfg.TargetWords >= 1
    /\ cfg.RelevanceThreshold \in 1..10
    /\ Len(question) > 0

\* C7: while no scoring call has returned with the context done, each
\* returned scoring call adds the ScoredPaper of its article, in fetch order,
\* with the parsed score of its reply or 5 when it failed, and the call of
\* the next paper follows; when the last one has returned and at least one
\* succeeded, scoreRelevance returned one ScoredPaper per article and no
\* error.
C7_FailedScoringContinues ==
    \A k \in 1..Len(articles) :
        (ScoringReturned(k) /\ NoCancelUpTo(k)) =>
            /\ Len(scored) >= k
            /\ scored[k].Article = articles[k]
            /\ scored[k].RelevanceScore =
                   IF returns[2 + k].ok THEN parseScore(returns[2 + k].val) ELSE 5
            /\ k < Len(articles) =>
                   (Len(calls) >= 3 + k /\ calls[3 + k].purpose = "score")
            /\ (k = Len(articles) /\ \E j \in 1..k : returns[2 + j].ok) =>
                   /\ Len(scored) = Len(articles)
                   /\ result.PapersScored = Len(articles)
                   /\ ~(ret.kind = "err" /\ ret.err.stage = "relevance scoring")

\* C7 happens: of three papers the second one's call fails with the context
\* live, the others are scored, and the run goes on after scoring.
C7_Witness ==
    /\ Len(articles) = 3
    /\ ScoringReturned(3)
    /\ NoCancelUpTo(3)
    /\ FailedScorings = {2}
    /\ scored[2].RelevanceScore = 5
    /\ scored[1].RelevanceScore = 9
    /\ pc = "compose"

\* C8: once every scoring call of n >= 1 articles has returned and none with
\* the context done, Synthesize has returned the all-failed error exactly
\* when all n calls failed, and that error wraps the error of the first
\* call that failed; with fewer failures scoreRelevance returned n papers.
\* The all-failed error is returned in no other case.
C8_AllFailedExactly ==
    LET n == Len(articles)
        allFailed == ret.kind = "err" /\ ret.err.kind = "allfailed"
    IN  /\ (n >= 1 /\ ScoringReturned(n) /\ NoCancelUpTo(n)) =>
               /\ allFailed <=> Cardinality(FailedScorings) = n
               /\ allFailed => /\ pc = "done"
                               /\ ret.err.src = 3
                               /\ ret.err.stage = "relevance scoring"
                               /\ ret.res = EmptySynthResult
               /\ ~allFailed => result.PapersScored = n
        /\ allFailed => (n >= 1 /\ ScoringReturned(n) /\ NoCancelUpTo(n))

\* C8 happens: all three scoring calls fail with the context live.
C8_Witness ==
    /\ pc = "done"
    /\ ctx = "active"
    /\ Len(articles) = 3
    /\ FailedScorings = {1, 2, 3}
    /\ ret.kind = "err"
    /\ ret.err.kind = "allfailed"

C10_CancellationIdentified ==
    (pc = "done" /\ ret.kind = "err" /\ ret.err.onCancel) => ret.err.wrapsCtx

\* The scored papers that meet the threshold, by their place in scored.
Qualifying == {k \in 1..Len(scored) : scored[k].RelevanceScore >= cfg.RelevanceThreshold}

\* C11: once scoreRelevance has returned its papers, the papers used are
\* distinct scored papers that meet the threshold, in non-increasing order
\* of score, min(number of papers meeting the threshold, PapersToUse) of
\* them, PapersUsed is their number, and no paper left out scores higher
\* than one that is used.
C11_TopPapersUsed ==
    result.PapersScored > 0 =>
        /\ Len(relevant) = Min(Cardinality(Qualifying), cfg.PapersToUse)
        /\ result.PapersUsed = Len(relevant)
        /\ \A k \in 1..Len(relevant) :
               relevant[k].RelevanceScore >= cfg.RelevanceThreshold
        /\ \A a, b \in 1..Len(relevant) :
               a < b => relevant[a].RelevanceScore >= relevant[b].RelevanceScore
        /\ \E f \in [1..Len(relevant) -> Qualifying] :
               /\ \A a, b \in 1..Len(relevant) : a # b => f[a] # f[b]
               /\ \A k \in 1..Len(relevant) : relevant[k] = scored[f[k]]
               /\ \A j \in Qualifying :
                      (\A k \in 1..Len(relevant) : f[k] # j) =>
                          \A k \in 1..Len(relevant) :
                              scored[j].RelevanceScore <= relevant[k].RelevanceScore

\* C11 happens: papers scored 3, 7 and 9 in fetch order, two to use: the
\* third and the second are used, in that order.
C11_Witness ==
    /\ pc = "compose"
    /\ cfg.PapersToUse = 2
    /\ cfg.RelevanceThreshold = 7
    /\ Len(scored) = 3
    /\ scored[1].RelevanceScore = 3
    /\ scored[2].RelevanceScore = 7
    /\ scored[3].RelevanceScore = 9
    /\ relevant = <<scored[3], scored[2]>>

\* C12: every Result returned by Synthesize has
\* PapersUsed <= PapersScored <= PapersSearched.
C12_CountsOrdered ==
    (pc = "done" /\ ret.kind = "ok") =>
        /\ ret.res.PapersUsed <= ret.res.PapersScored
        /\ ret.res.PapersScored <= ret.res.PapersSearched

\* C13: every Reference of a Result returned by Synthesize has a non-empty
\* key, and no two References of the Result have the same key.
C13_ReferenceKeysUnique ==
    (pc = "done" /\ ret.kind = "ok") =>
        LET refs == ret.res.References
        IN  /\ \A k \in 1..Len(refs) : refs[k].Key # <<>>
            /\ \A a, b \in 1..Len(refs) : a # b => refs[a].Key # refs[b].Key

\* The token estimate of the scoring call of paper k: nothing when it failed.
ScoringEstimate(k) ==
    IF returns[2 + k].ok
    THEN ScoreTokens(ret.res.Question, articles[k], returns[2 + k].val)
    ELSE [Input |-> 0, Output |-> 0]

\* C14: in every Result returned by Synthesize, Tokens.Input and
\* Tokens.Output are the sums of the estimates of the scoring calls and of
\* the synthesis call, a failed scoring call counting for nothing, and
\* Tokens.Total is their sum.
C14_TokensAddUp ==
    (pc = "done" /\ ret.kind = "ok") =>
        LET n == Len(articles)
            t == ret.res.Tokens
            c == SynthesisTokens(ret.res.Question, relevant, cfg.TargetWords,
                                 ret.res.Synthesis)
        IN  /\ t.Input = SumTo([k \in 1..n |-> ScoringEstimate(k).Input], n) + c.Input
            /\ t.Output = SumTo([k \in 1..n |-> ScoringEstimate(k).Output], n) + c.Output
            /\ t.Total = t.Input + t.Output

\* C14 happens: a Result after one failed and two successful scoring calls.
C14_Witness ==
    /\ pc = "done"
    /\ ret.kind = "ok"
    /\ Len(articles) = 3
    /\ FailedScorings = {1}
    /\ ret.res.Tokens.Output = 3
    /\ ret.res.Tokens.Total > ret.res.Tokens.Input

\* Synthesize has ended with an error that is no call's error, with no
\* Result, and its last call was call k.
BusinessEnd(k) ==
    /\ pc = "done"
    /\ ret.kind = "err"
    /\ ret.res = EmptySynthResult
    /\ ret.err.kind = "business"
    /\ ret.err.src = 0
    /\ ~ret.err.wrapsCtx
    /\ ~ret.err.onCancel
    /\ Len(calls) = k

\* C15: a search that returns no id, a fetch that returns no article, a
\* scoring after which no paper meets the threshold and a synthesis reply of
\* white space only each end Synthesize with an error that wraps no call's
\* error, with no Result and with no further call.
C15_BusinessOutcomesTerminal ==
    LET n == Len(articles)
    IN  /\ (Len(returns) >= 1 /\ returns[1].ok /\ returns[1].val = <<>>)
               => BusinessEnd(1)
        /\ (Len(returns) >= 2 /\ returns[2].ok /\ returns[2].val = <<>>)
               => BusinessEnd(2)
        /\ (result.PapersScored > 0 /\ Qualifying = {})
               => BusinessEnd(2 + n)
        /\ (n > 0 /\ Len(returns) >= 3 + n /\ returns[3 + n].ok
              /\ TrimSpace(returns[3 + n].val) = <<>>)
               => BusinessEnd(3 + n)

\* C15 happens: three papers are scored and none meets the threshold.
C15_Witness ==
    /\ pc = "done"
    /\ ctx = "active"
    /\ result.PapersScored = 3
    /\ FailedScorings = {}
    /\ Qualifying = {}
    /\ ret.kind = "err"

\* The papers meeting the threshold, by descending score, papers of equal
\* score in fetch order.
StableOrder ==
    LET papers == FilterRelevant(scored, cfg.RelevanceThreshold)
        n == Len(papers)
        g == CHOOSE f \in [1..n -> 1..n] :
                 /\ \A a, b \in 1..n : a # b => f[a] # f[b]
                 /\ \A a, b \in 1..n : a < b =>
                       \/ papers[f[a]].RelevanceScore > papers[f[b]].RelevanceScore
                       \/ /\ papers[f[a]].RelevanceScore = papers[f[b]].RelevanceScore
                          /\ f[a] < f[b]
    IN  [k \in 1..n |-> papers[g[k]]]

\* C24: among papers with equal relevance scores, the filter-and-sort stage
\* of Synthesize keeps the fetch order (the sort is stable), both in the
\* order of the used papers and in which of the tied papers survive the cut
\* to PapersToUse.
C24_SortStable ==
    result.PapersScored > 0 =>
        relevant = SubSeq(StableOrder, 1, Min(Len(StableOrder), cfg.PapersToUse))

\* C26: in any run of Synthesize the external calls are a prefix of: one
\* search, one fetch, one scoring completion per fetched paper in fetch
\* order, one compose completion; no call is repeated or retried after a
\* failure, at most one call is outstanding at any time, and no stage's call
\* starts before the previous stage has returned.
C26_CallSequence ==
    LET n == Len(articles)
    IN  /\ Len(calls) \in {Len(returns), Len(returns) + 1}
        /\ (call # NoCall) <=> (Len(calls) = Len(returns) + 1)
        /\ Len(calls) >= 3 => (n >= 1 /\ Len(calls) <= 3 + n)
        /\ \A k \in 1..Len(calls) :
              calls[k] = IF k = 1 THEN [kind |-> "search", purpose |-> ""]
                         ELSE IF k = 2 THEN [kind |-> "fetch", purpose |-> ""]
                         ELSE IF k <= 2 + n THEN [kind |-> "complete", purpose |-> "score"]
                         ELSE [kind |-> "complete", purpose |-> "synthesis"]
        /\ \A k \in 1..Len(returns) :
              (k <= 2 \/ k = 3 + n) /\ ~returns[k].ok => Len(calls) = k
        /\ pc = "score" =>
              /\ Len(calls) = 3 + idx
              /\ Len(scored) = idx
              /\ \A k \in 1..idx : scored[k].Article = articles[k]

\* C26 happens: a run of six calls for three papers, the second scoring call
\* failed, and the run returned a Result.
C26_Witness ==
    /\ pc = "done"
    /\ Len(articles) = 3
    /\ Len(calls) = 6
    /\ Len(returns) = 6
    /\ ~returns[4].ok
    /\ ret.kind = "ok"

\* The score-phase events emitted so far, in order.
ScoreEvents == SelectSeq(events, LAMBDA u : u.Phase = "score")

\* C27: while n fetched papers are scored, there is for each paper i a
\* score event with current = i-1 before its completion call and one with
\* current = i after it; over the run the score events have total = n and a
\* current that never decreases, starts at 0, never exceeds n, and reaches n
\* exactly when all papers were scored.
C27_ScoreProgress ==
    LET n == Len(articles)
        s == ScoreEvents
    IN  /\ \A k \in 1..Len(s) : s[k].Total = n /\ s[k].Current \in 0..n
        /\ \A a, b \in 1..Len(s) : a < b => s[a].Current <= s[b].Current
        /\ s # <<>> => s[1].Current = 0
        /\ \A i \in 1..n :
              /\ Len(calls) >= 2 + i => \E k \in 1..Len(s) : s[k].Current = i - 1
              /\ (Len(calls) = 2 + i /\ Len(returns) < 2 + i) =>
                    s[Len(s)].Current = i - 1
              /\ (\E k \in 1..Len(s) : s[k].Current = i) <=> Len(scored) >= i
              /\ Len(scored) >= i => Len(returns) >= 2 + i
        /\ n >= 1 => ((\E k \in 1..Len(s) : s[k].Current = n) <=> Len(scored) = n)

\* C27 happens: three papers were scored and the score events counted 0, 0,
\* 1, 1, 2, 2, 3.
C27_Witness ==
    /\ Len(articles) = 3
    /\ Len(scored) = 3
    /\ [k \in 1..Len(ScoreEvents) |-> ScoreEvents[k].Current] = <<0, 0, 1, 1, 2, 2, 3>>

-----------------------------------------------------------------------------
(* Properties of progress reporting. *)

-----------------------------------------------------------------------------
(* Properties of SynthesizePMID. *)

\* C17: SynthesizePMID makes no search call and no scoring call; when it
\* has returned a Result it has made one fetch call, for the one pmid, and
\* then one completion call, and the Result counts one paper searched,
\* scored and used and has one Reference, to the first article fetched,
\* with relevance 10.
C17_DeepDiveSinglePaper ==
    /\ \A k \in 1..Len(calls) :
           calls[k].kind # "search" /\ calls[k].purpose # "score"
    /\ (pc = "done" /\ ret.kind = "ok") =>
           /\ Len(calls) = 2
           /\ calls[1].kind = "fetch"
           /\ ids = <<TrimSpace(question)>>
           /\ calls[2].kind = "complete"
           /\ ret.res.PapersSearched = 1
           /\ ret.res.PapersScored = 1
           /\ ret.res.PapersUsed = 1
           /\ Len(ret.res.References) = 1
           /\ ret.res.References[1].RelevanceScore = 10
           /\ ret.res.References[1].PMID = returns[1].val[1].PMID

\* C17 happens: the fetch returns three records and a Result is returned.
C17_Witness ==
    /\ pc = "done"
    /\ ret.kind = "ok"
    /\ Len(returns[1].val) = 3
    /\ Len(ret.res.References) = 1

-----------------------------------------------------------------------------
(* Properties of DoGet. *)

\* C18: a DoGet call sends at most 3 requests; every response before its
\* last one was a 429; on a transport error, on a 200 and on any other
\* status it has ended with that response as its last request; it has
\* ended with the 429 error exactly when it got three responses, all 429;
\* so every call ends after at most 3 requests.
C18_RetryOnly429 ==
    \A c \in Callers :
        LET d == doGet[c]
            n == Len(d.resps)
        IN  /\ d.sent <= 3
            /\ n <= d.sent
            /\ d.sent <= n + 1
            /\ d.attempt <= 2
            /\ \A k \in 1..(n - 1) : d.resps[k] = "429"
            /\ d.pc \in {"wait", "do"} => d.attempt = n
            /\ (n >= 1 /\ d.resps[n] # "429") =>
                   /\ d.pc = "done"
                   /\ d.sent = n
                   /\ d.ret = (IF d.resps[n] = "200" THEN "ok"
                               ELSE IF d.resps[n] = "transport" THEN "transport"
                               ELSE "status")
            /\ (n = 3 /\ d.resps[3] = "429") => (d.pc = "done" /\ d.ret = "429")
            /\ d.ret = "429" => (n = 3 /\ d.sent = 3 /\ d.resps[3] = "429")
            /\ d.ret # "unreachable"

\* C18 happens: a call has ended after three 429 responses while the
\* context is live.
C18_Witness ==
    /\ ctx = "active"
    /\ \E c \in Callers :
          /\ doGet[c].pc = "done"
          /\ doGet[c].ret = "429"
          /\ doGet[c].resps = <<"429", "429", "429">>

\* C19: the limiter never holds more than its burst of 1, every third of a
\* second sees at most one request, first attempts and retries of all
\* callers together, and so any four thirds in a row, which cover every
\* window of one second, see at most 4.
C19_RateLimited ==
    /\ limiter \in {0, 1}
    /\ \A k \in 1..4 : window[k] <= 1
    /\ Sum4(window) <= 4

\* C19 happens: four requests in four thirds of a second in a row, sent by
\* two callers, one of them a retry after a 429.
C19_Witness ==
    /\ Sum4(window) = 4
    /\ \E a, b \in Callers :
          /\ a # b
          /\ doGet[a].sent >= 1
          /\ doGet[b].attempt >= 1
          /\ doGet[b].sent = doGet[b].attempt + 1

-----------------------------------------------------------------------------
(* Properties of truncate. *)

\* C20: truncate applied to its own result with the same maxLen >= 0
\* returns that result.
C20_TruncateIdempotent ==
    Len(value) = 2 => value[2] = value[1]

\* C20 happens: a string that is cut and given "..." is truncated again.
C20_Witness ==
    /\ Len(value) = 2
    /\ args.maxLen = 2
    /\ Len(args.s) = 4
    /\ value[1] = <<"a", "uFFFD", ".", ".", ".">>


-----------------------------------------------------------------------------
(* Properties of parseScore. *)

\* Positions i..j of s are a whole word: a longest run of word characters.
WholeWord(s, i, j) ==
    /\ 1 <= i /\ i <= j /\ j <= Len(s)
    /\ \A k \in i..j : IsWord(s[k])
    /\ (i = 1 \/ ~IsWord(s[i - 1]))
    /\ (j = Len(s) \/ ~IsWord(s[j + 1]))

\* The whole words of s that are 10 or one digit 1-9, as <<start, score>>.
ScoreWords(s) ==
    {<<i, n>> \in (1..Len(s)) \X (1..10) :
        \E j \in i..Len(s) :
            /\ WholeWord(s, i, j)
            /\ SubSeq(s, i, j) = Itoa(n)}

\* C21: parseScore returns a value in 1..10 for every input: the first
\* whole-word token that is 10 or a single digit 1-9 when there is one, and 5
\* otherwise (empty, whitespace only, no digits, "0", "11", "15"); a digit
\* inside a longer number is never matched, "Rating: 5/10" gives 5 and "-3"
\* gives 3.
C21_ParseScoreRange ==
    value # <<>> =>
        LET s == args.s
            w == ScoreWords(s)
        IN  /\ value[1] \in 1..10
            /\ w = {} => value[1] = 5
            /\ w # {} =>
                  \E p \in w : /\ value[1] = p[2]
                               /\ \A q \in w : p[1] <= q[1]
            /\ s \in {<<>>, <<" "," "," ">>, <<"h","i","g","h">>, <<"0">>,
                      <<"1","1">>, <<"1","5">>} => value[1] = 5
            /\ s = <<"R","a","t","i","n","g",":"," ","5","/","1","0">> => value[1] = 5
            /\ s = <<"-","3">> => value[1] = 3

\* A reply with a digit inside a longer number, then a whole-word score, was
\* parsed.
C21_Witness ==
    /\ value # <<>>
    /\ args.s = <<"5","1"," ","1">>
    /\ value[1] = 1

-----------------------------------------------------------------------------
(* Properties of MinifyAbstract. *)

\* C22: for every text and every maxChars >= 0, MinifyAbstract(text,
\* maxChars) returns a string that is never longer than maxChars + 3 and
\* never longer than the text.
C22_MinifyBounded ==
    value # <<>> =>
        /\ Len(value[1]) <= args.maxChars + 3
        /\ Len(value[1]) <= Len(args.text)

\* An abstract longer than maxChars was cut down to two of its sentences,
\* the later one first, and the result is longer than maxChars.
C22_Witness ==
    /\ value # <<>>
    /\ Len(args.text) > args.maxChars
    /\ Len(value[1]) = args.maxChars + 1
    /\ MatchAt(value[1], <<"R","e","s","u","l","t","s",":">>, 1)
    /\ MatchAt(args.text, <<"w","e"," ","e","n","r","o","l","l","e","d">>, 1)
    /\ Contains(value[1], <<"w","e"," ","e","n","r","o","l","l","e","d">>)

-----------------------------------------------------------------------------
(* Properties of the LLM subprocess. *)

\* The subprocess was started with the arguments flags before its prompt.
StartedWith(flags) ==
    /\ Len(value) = 2
    /\ value[2].started
    /\ \E k \in 1..(Len(value[2].argv) - Len(flags)) :
          SubSeq(value[2].argv, k, k + Len(flags) - 1) = flags

\* C23: the LLM subprocess is started with a sandbox-bypass flag
\* (--dangerously-bypass-approvals-and-sandbox for Codex,
\* --dangerously-skip-permissions for Claude) only if the user passed
\* --unsafe; in every other case, an unset or unrecognised sandbox mode
\* included, Codex is started with --sandbox read-only or --sandbox
\* workspace-write and Claude without the skip-permissions flag.
C23_BypassOnlyIfUnsafe ==
    Len(value) = 2 /\ value[2].started =>
        /\ (\/ StartedWith(<<"--dangerously-bypass-approvals-and-sandbox">>)
            \/ StartedWith(<<"--dangerously-skip-permissions">>)) => args.unsafe
        /\ ~args.unsafe /\ value[1].kind = "codex" =>
              \/ StartedWith(<<"--sandbox", "read-only">>)
              \/ StartedWith(<<"--sandbox", "workspace-write">>)
        /\ ~args.unsafe /\ value[1].kind = "claude" =>
              ~StartedWith(<<"--dangerously-skip-permissions">>)

\* Claude was started by a client whose sandbox mode is unset.
C23_Witness ==
    /\ Len(value) = 2
    /\ value[2].started
    /\ value[1].kind = "claude"
    /\ value[1].security.SandboxMode = ""
    /\ ~args.unsafe

-----------------------------------------------------------------------------
(* Properties of getConfidence. *)

\* C25: the confidence produced by the QA confidence check is an integer in
\* 1..10 for every completion reply, and is 5 whenever no confidence number
\* can be parsed from the reply.
C25_ConfidenceInRange ==
    value # <<>> =>
        /\ value[1] \in 1..10
        /\ (\A k \in 1..Len(args.resp) : ~IsDigit(args.resp[k])) => value[1] = 5

-----------------------------------------------------------------------------
(* Properties of runSynthWithTUI. *)

\* C29: progressCh is closed exactly once, and only after the engine call
\* has returned and its outcome has been placed on out; so no update is sent
\* on the closed channel, and the UI receives the done message only after
\* every update the channel accepted, in every interleaving of the goroutine
\* and the UI loop.
C29_ClosedAfterOutcome ==
    /\ tui.closes <= 1
    /\ tui.closed <=> tui.goroutine = "exited"
    /\ tui.closed =>
          /\ pc = "done"
          /\ tui.out = <<ret>> \/ tui.main = "returned"
    /\ ~tui.sentOnClosed
    /\ tui.ui = "done" =>
          /\ tui.closed
          /\ tui.doneAfter = tui.accepted
          /\ tui.received = tui.accepted

\* C29 happens: the UI received five updates and then the done message,
\* while the engine had reported more than the channel accepted.
C29_Witness ==
    /\ tui.ui = "done"
    /\ tui.closed
    /\ tui.accepted = 5
    /\ tui.doneAfter = 5
    /\ Len(events) > 5

\* The goroutine is not kept waiting at its send on out.
SendNeverBlocks == (tui.goroutine = "running" /\ pc = "done") => ENABLED SendOutcome

\* When the UI ended without an error, what runSynthWithTUI returned is what
\* the engine call returned.
ReturnsOutcome ==
    (tui.main = "returned" /\ tui.ui \in {"done", "quit"}) => tui.retval = ret

\* C30: runSynthWithTUI never deadlocks: with an engine call that returns
\* once its context is cancelled, in every interleaving of the engine's
\* completion, a quit key (which cancels the context) and a UI error, the
\* goroutine never blocks at its send of the outcome, the function
\* eventually returns, and when the UI ended without an error it returns
\* the engine's result and error.
C30_NoDeadlock ==
    /\ [](SendNeverBlocks /\ ReturnsOutcome)
    /\ <>(tui.main = "returned")

\* C30 happens: the user quit during an external call, the engine returned
\* an error for the cancelled context, and runSynthWithTUI returned it.
C30_Witness ==
    /\ tui.main = "returned"
    /\ tui.ui = "quit"
    /\ ctx = "Canceled"
    /\ ret.kind = "err"
    /\ ret.err.onCancel
    /\ tui.retval = ret

=============================================================================
